---- MODULE Spec2Model ----
(***************************************************************************)
(* A model of the xcube extension registry (xcube/util/extension.py), of   *)
(* the configuration-expression tokenizer of the resources context         *)
(* (xcube/webapi/common/context.py), and of the code around them.          *)
(*                                                                         *)
(* Python objects are modelled as records, Python's None as the record     *)
(* NoneV, str values that the code inspects character by character as      *)
(* sequences of one-character strings, and dict objects (which keep        *)
(* insertion order) as sequences of entries.                               *)
(***************************************************************************)
EXTENDS Integers, Sequences, FiniteSets, TLC

VARIABLES
    extension_points,  \* ExtensionRegistry._extension_points, the Extension objects in it
    sys,               \* the interpreter: modules imported, transforms and calls made
    made,              \* the loader most recently returned by import_component
    owner,             \* history: per point, the Extensions added and not removed since
    keys               \* history: per point, the names added while not registered

regVars == <<extension_points, sys, made, owner, keys>>

\* Threads that read the component of one lazily constructed Extension.
VARIABLES
    shared,            \* the Extension's _component: 0 for None, else the number of the
                       \* loader run that returned it
    pc,                \* per thread: where it is in the component property
    result,            \* per thread: what its run of the loader returned
    returned,          \* per thread: what its reads of component returned
    started,           \* runs of the loader begun
    completed          \* runs of the loader that returned

thrVars == <<shared, pc, result, returned, started, completed>>

\* ResourcesContext.eval_config_value on one string
VARIABLES
    value,             \* the string that is evaluated
    scan,              \* _tokenize_value's locals i, i0, sqs, dqs, es and the tokens yielded
    tpc,               \* where the evaluation is: "idle", "scan", "eval", "done"
    evaluated          \* what _eval_config_str_value returned or raised

tokVars == <<value, scan, tpc, evaluated>>

\* normalize_prefix on one prefix
VARIABLES
    prefix,            \* the argument: [given |-> FALSE] for None, else [given, str]
    normalized         \* what normalize_prefix returned, None before it was called

pfxVars == <<prefix, normalized>>

\* A DatasetsMapping and the DatasetsContext it adapts
VARIABLES
    dataset_configs,   \* the Identifier of each of get_dataset_configs(), in their order
    opened,            \* the calls of get_dataset and get_ml_dataset so far
    is_multi_level     \* DatasetsMapping._is_multi_level

dsVars == <<dataset_configs, opened, is_multi_level>>

\* A run of a bootstrap script, run_era_server.py or xcube-vm/get_config_file.py
VARIABLES
    rpc,               \* the statement the script is at, "done" or "aborted" at its end
    conn,              \* the environment's AzureWebJobsStorage: "none", "bad" or "good"
    remote,            \* the blob xcube_config.yml of the container config-file
    file,              \* the file xcube_config.yml of the working directory
    tmp_file,          \* the file /tmp/xcube_config.yml
    file_before,       \* history: the file that the script writes, as the script found it
    attempts           \* how often the script built a client, downloaded, started the server

runVars == <<rpc, conn, remote, file, tmp_file, file_before, attempts>>

vars == <<regVars, thrVars, tokVars, pfxVars, dsVars, runVars>>

----------------------------------------------------------------------------
(* Bounds *)

\* Extensions registered at one time.
MaxExtensions == 3
\* Invocations of one Extension's loader in one run.
MaxCalls == 2
\* Calls of importlib.import_module in one run.
MaxImports == 2
\* Characters of an import spec.
MaxSpecLen == 3
\* Threads that read the component of one Extension.
NumThreads == 2
\* Reads of the component by one thread.
MaxReads == 2
\* Items of a list in a configuration value.
MaxItems == 2
\* Pieces ("/", "a", "${name}", "${version}") of a prefix.
MaxPieces == 5
\* Dataset configurations at one time.
MaxDatasets == 3
\* Calls of get_dataset and get_ml_dataset in one run.
MaxOpens == 1
\* Bytes of the configuration blob.
MaxBlobLen == 2
\* Characters of a configuration string.
MaxValueLen == 5

----------------------------------------------------------------------------
(* Values *)

NoneV == [kind |-> "None"]

Obj(n) == [kind |-> "obj", name |-> n]

\* Python's str "absent" for point and name arguments.
NoStr == "<None>"

Points == {"p", "q"}

Names == {"a", "b"}

Pairs == Points \X Names

OkRet(v) == [exc |-> "", val |-> v]

Raise(e) == [exc |-> e, val |-> NoneV]

Raised(r) == r.exc # ""

----------------------------------------------------------------------------
(* Loaders: the callables given as Extension(loader=...) *)

\* A loader that returns the value v (None included).
ConstLoader(v) == [kind |-> "const", value |-> v]

\* A loader that raises.
RaisingLoader == [kind |-> "raise"]

\* A value that is not None and not callable.
NotCallable == [kind |-> "notcallable"]

Callable(l) == l.kind \in {"const", "raise", "import"}

----------------------------------------------------------------------------
(* import_component and _import_component *)

Chars == {"m", "c", ":"}

\* The modules importlib can import, and the attributes each of them has.
Modules == {<<"m">>}

Attrs == {<<"c">>}

RECURSIVE StrsUpTo(_)
StrsUpTo(n) ==
    IF n = 0 THEN {<<>>}
    ELSE LET shorter == StrsUpTo(n - 1)
         IN shorter \cup {Append(s, c) : s \in shorter, c \in Chars}

HasColon(s) == \E i \in 1..Len(s) : s[i] = ":"

FirstColon(s) ==
    CHOOSE i \in 1..Len(s) : s[i] = ":" /\ \A j \in 1..(i - 1) : s[j] # ":"

\* component_spec.split(':', maxsplit=1)
SplitSpec(s) ==
    IF HasColon(s)
    THEN <<SubSeq(s, 1, FirstColon(s) - 1), SubSeq(s, FirstColon(s) + 1, Len(s))>>
    ELSE <<s>>

ErrMustSpecify == "ValueError: illegal spec, must specify a component"

ErrMissingModule == "ValueError: illegal spec, missing module path"

ErrMissingName == "ValueError: illegal spec, missing component name"

SpecErrors == {ErrMustSpecify, ErrMissingModule, ErrMissingName}

\* importlib.import_module(module_name): every call is counted in s.imports.
import_module(module_name, s) ==
    LET s1 == [s EXCEPT !.imports = @ + 1]
    IN IF module_name \in Modules
       THEN [sys |-> s1, ret |-> OkRet([kind |-> "module", name |-> module_name])]
       ELSE [sys |-> s1, ret |-> Raise("ModuleNotFoundError")]

\* getattr(module, component_name)
getattr(module, component_name) ==
    IF component_name \in Attrs
    THEN OkRet([kind |-> "attr", module |-> module.name, name |-> component_name])
    ELSE Raise("AttributeError")

\* The end of _import_component, m the outcome of importlib.import_module:
\* getattr(module, component_name) if component_name else module.
ImportAttr(m, component_name) ==
    IF Raised(m.ret) THEN m
    ELSE IF component_name.some /\ component_name.str # <<>>
    THEN [sys |-> m.sys, ret |-> getattr(m.ret.val, component_name.str)]
    ELSE m

\* An _import_component that checks the module path before it checks that a
\* component is specified.
ImportSpec_ModulePathFirst(component_spec, force_component, s) ==
    LET parts == SplitSpec(component_spec)
        named == HasColon(component_spec)
    IN IF parts[1] = <<>>
       THEN [sys |-> s, ret |-> Raise(ErrMissingModule)]
       ELSE IF force_component /\ ~named
       THEN [sys |-> s, ret |-> Raise(ErrMustSpecify)]
       ELSE IF named /\ parts[2] = <<>>
       THEN [sys |-> s, ret |-> Raise(ErrMissingName)]
       ELSE ImportAttr(import_module(parts[1], s),
                       [some |-> named, str |-> IF named THEN parts[2] ELSE <<>>])

\* _import_component(component_spec, force_component); component_name is
\* [some |-> FALSE] for Python's None.
ImportSpec(component_spec, force_component, s) ==
    LET parts == SplitSpec(component_spec)
        module_name == parts[1]
        component_name ==
            IF HasColon(component_spec)
            THEN [some |-> TRUE, str |-> parts[2]]
            ELSE [some |-> FALSE, str |-> <<>>]
    IN IF force_component /\ ~component_name.some
       THEN [sys |-> s, ret |-> Raise(ErrMustSpecify)]
       ELSE IF module_name = <<>>
       THEN [sys |-> s, ret |-> Raise(ErrMissingModule)]
       ELSE IF component_name.some /\ component_name.str = <<>>
       THEN [sys |-> s, ret |-> Raise(ErrMissingName)]
       ELSE ImportAttr(import_module(module_name, s), component_name)

\* Whether calling the component works: modules are not callable, the
\* attribute of the module is, and a transformed component is what it wraps.
RECURSIVE IsCallable(_)
IsCallable(c) ==
    CASE c.kind = "attr" -> TRUE
      [] c.kind = "transformed" -> IsCallable(c.of)
      [] OTHER -> FALSE

\* _load, second step, on the outcome r of the first:
\* if transform is not None: component = transform(component, extension).
LoadTransform(closure, extension, r) ==
    IF Raised(r.ret) THEN r
    ELSE IF closure.transform
    THEN [sys |-> [r.sys EXCEPT !.transforms = @ + 1],
          ret |-> OkRet([kind |-> "transformed", of |-> r.ret.val,
                         extension |-> extension])]
    ELSE r

\* _load, third step, on the outcome r of the second:
\* if call or call_args or call_kwargs: component = component(...).
LoadCall(closure, r) ==
    IF Raised(r.ret) THEN r
    ELSE IF closure.call \/ closure.call_args
    THEN IF IsCallable(r.ret.val)
         THEN [sys |-> [r.sys EXCEPT !.invoked = @ + 1],
               ret |-> OkRet([kind |-> "result", of |-> r.ret.val])]
         ELSE [sys |-> r.sys, ret |-> Raise("TypeError")]
    ELSE r

\* The closure _load(extension) that import_component returns, run on the
\* Extension of identity extension.
Load(closure, extension, s) ==
    LoadCall(closure,
             LoadTransform(closure, extension,
                           ImportSpec(closure.spec, closure.call, s)))

\* An import_component that resolves the spec when it is called.
import_component_resolving(spec, transform, call, call_args, s) ==
    [sys |-> ImportSpec(spec, call, s).sys,
     ret |-> OkRet([kind |-> "import", spec |-> spec, transform |-> transform,
                    call |-> call, call_args |-> call_args])]

\* import_component(spec, transform, call, call_args) in the interpreter
\* state s: returns the closure and does nothing else. transform and
\* call_args are TRUE when given (call_args non-empty); call_kwargs is left
\* at its default.
import_component(spec, transform, call, call_args, s) ==
    [sys |-> s,
     ret |-> OkRet([kind |-> "import", spec |-> spec, transform |-> transform,
                    call |-> call, call_args |-> call_args])]

\* loader(extension) for each kind of loader.
CallLoader(loader, extension, s) ==
    CASE loader.kind = "const" -> [sys |-> s, ret |-> OkRet(loader.value)]
      [] loader.kind = "raise" -> [sys |-> s, ret |-> Raise("RuntimeError")]
      [] loader.kind = "import" -> Load(loader, extension, s)

----------------------------------------------------------------------------
(* class Extension.  An Extension object lives in the dict entry that      *)
(* refers to it; st is the store [extension_points, sys] an operation runs *)
(* in, and an operation returns the store it leaves and what it returns.   *)
(* Objects are told apart by (point, name, serial): a new object gets a    *)
(* serial that the object registered at its (point, name) does not have.   *)
(* The field loads is history: how often the object's loader ran, and on   *)
(* which arguments.                                                        *)

\* A constructor without the check that component and loader are not both given.
ExtensionInitError_AcceptsBoth(point, name, comp, loader) ==
    IF point = NoStr THEN "ValueError: point must be given"
    ELSE IF name = NoStr THEN "ValueError: name must be given"
    ELSE IF loader = NoneV /\ comp = NoneV
    THEN "ValueError: either component or loader must be given"
    ELSE IF loader # NoneV /\ ~Callable(loader)
    THEN "ValueError: loader must be callable"
    ELSE ""

\* Extension.__init__: the error raised, or "" when construction succeeds.
ExtensionInitError(point, name, comp, loader) ==
    IF point = NoStr THEN "ValueError: point must be given"
    ELSE IF name = NoStr THEN "ValueError: name must be given"
    ELSE IF (loader # NoneV /\ comp # NoneV) \/ (loader = NoneV /\ comp = NoneV)
    THEN "ValueError: either component or loader must be given"
    ELSE IF loader # NoneV /\ ~Callable(loader)
    THEN "ValueError: loader must be callable"
    ELSE ""

NewExtension(point, name, comp, loader, serial) ==
    [point |-> point, name |-> name, component |-> comp, loader |-> loader,
     serial |-> serial, loads |-> [n |-> 0, args |-> {}]]

Ident(self) == <<self.point, self.name, self.serial>>

\* Extension.is_lazy
is_lazy(self) == self.loader # NoneV

\* The argument the component property passes to the loader: self.
LoaderArgument(self) == Ident(self)

\* A read that catches what the loader raises and returns None.
StoreLoaded_Swallowing(self, arg, r) ==
    LET self1 == [self EXCEPT !.loads = [n |-> @.n + 1, args |-> @.args \cup {arg}]]
    IN IF Raised(r.ret)
       THEN [self |-> self1, sys |-> r.sys, ret |-> OkRet(NoneV)]
       ELSE [self |-> [self1 EXCEPT !.component = r.ret.val], sys |-> r.sys,
             ret |-> OkRet(r.ret.val)]

\* self._component = self._loader(self), r the outcome of the loader's run on
\* arg: a loader that raises leaves self._component as it was.
StoreLoaded(self, arg, r) ==
    LET self1 == [self EXCEPT !.loads = [n |-> @.n + 1, args |-> @.args \cup {arg}]]
    IN IF Raised(r.ret)
       THEN [self |-> self1, sys |-> r.sys, ret |-> r.ret]
       ELSE [self |-> [self1 EXCEPT !.component = r.ret.val], sys |-> r.sys,
             ret |-> OkRet(r.ret.val)]

\* Extension.component (the property) read on the object self; returns the
\* object as the read leaves it.
component(self, s) ==
    IF self.component = NoneV /\ self.loader # NoneV
    THEN StoreLoaded(self, LoaderArgument(self),
                     CallLoader(self.loader, LoaderArgument(self), s))
    ELSE [self |-> self, sys |-> s, ret |-> OkRet(self.component)]

NotLoadedYet == "<not loaded yet>"

\* component.to_dict() or repr(component): a rendering that names the component.
Repr(c) == [kind |-> "repr", of |-> c]

Text(t) == [kind |-> "text", text |-> t]

\* A to_dict that reads the component through the property.
to_dict_reading(self, s) ==
    LET r == component(self, s)
    IN [self |-> r.self, sys |-> r.sys,
        ret |-> IF Raised(r.ret) THEN r.ret
                ELSE OkRet([name |-> self.name, point |-> self.point,
                            component |-> Repr(r.ret.val)])]

\* Extension.to_dict on the object self.
to_dict(self, s) ==
    LET shown == IF self.component # NoneV THEN Repr(self.component)
                 ELSE Text(NotLoadedYet)
    IN [self |-> self, sys |-> s,
        ret |-> OkRet([name |-> self.name, point |-> self.point, component |-> shown])]

----------------------------------------------------------------------------
(* dict objects keyed by name, in insertion order: sequences of entries    *)
(* [name, ext], ext the Extension object.                                  *)

DictHas(d, name) == \E i \in 1..Len(d) : d[i].name = name

DictIndex(d, name) == CHOOSE i \in 1..Len(d) : d[i].name = name

\* A d[name] = extension that adds an entry whether or not the key is there.
DictSet_Appending(d, name, extension) ==
    Append(d, [name |-> name, ext |-> extension])

\* A d[name] = extension that moves an existing key to the end.
DictSet_MovingToEnd(d, name, extension) ==
    Append(SelectSeq(d, LAMBDA x : x.name # name), [name |-> name, ext |-> extension])

\* d[name] = extension: an existing key keeps its place, a new key goes last.
DictSet(d, name, extension) ==
    IF DictHas(d, name)
    THEN [d EXCEPT ![DictIndex(d, name)] = [name |-> name, ext |-> extension]]
    ELSE Append(d, [name |-> name, ext |-> extension])

\* A del d[name] that deletes the entries after the key as well.
DictDel_Truncating(d, name) ==
    SubSeq(d, 1, (CHOOSE i \in 1..Len(d) : d[i].name = name) - 1)

\* del d[name], for a key that is there.
DictDel(d, name) ==
    LET i == DictIndex(d, name)
    IN SubSeq(d, 1, i - 1) \o SubSeq(d, i + 1, Len(d))

\* list(d.values()), as references [point, i] to the objects.
DictValues(point, d) == [i \in 1..Len(d) |-> [point |-> point, i |-> i]]

\* The object a reference refers to.
Deref(ref, st) == st.extension_points[ref.point][ref.i].ext

----------------------------------------------------------------------------
(* Predicates given to find_extensions and find_components: none, a test   *)
(* of the Extension's name, a test of is_lazy.                             *)

NamePredicate(n) == [kind |-> "name", name |-> n]

LazyPredicate == [kind |-> "lazy"]

Predicates == {NoneV, NamePredicate("b"), LazyPredicate}

ApplyPredicate(predicate, extension) ==
    CASE predicate.kind = "name" -> extension.name = predicate.name
      [] predicate.kind = "lazy" -> is_lazy(extension)

RECURSIVE Filter(_, _, _)
\* [extension for extension in refs if predicate(extension)]
Filter(refs, predicate, st) ==
    IF refs = <<>> THEN <<>>
    ELSE LET rest == Filter(Tail(refs), predicate, st)
         IN IF ApplyPredicate(predicate, Deref(Head(refs), st)) THEN <<Head(refs)>> \o rest
            ELSE rest

----------------------------------------------------------------------------
(* class ExtensionRegistry *)

has_extension(point, name, st) ==
    [st |-> st,
     ret |-> OkRet(point \in DOMAIN st.extension_points
                   /\ DictHas(st.extension_points[point], name))]

\* Returns a reference to the Extension, or None.
get_extension(point, name, st) ==
    IF point \notin DOMAIN st.extension_points
    THEN [st |-> st, ret |-> OkRet(NoneV)]
    ELSE IF DictHas(st.extension_points[point], name)
    THEN [st |-> st,
          ret |-> OkRet([point |-> point, i |-> DictIndex(st.extension_points[point], name)])]
    ELSE [st |-> st, ret |-> OkRet(NoneV)]

\* The store after a method of the object that ref refers to returned r.
PutBack(ref, st, r) ==
    [st |-> [st EXCEPT !.sys = r.sys,
                       !.extension_points[ref.point][ref.i].ext = r.self],
     ret |-> r.ret]

\* extension.component on the object that ref refers to, in the store st.
ReadRef(ref, st) == PutBack(ref, st, component(Deref(ref, st), st.sys))

ErrNotFound == "ValueError: extension not found for extension point"

get_component(point, name, st) ==
    LET extension == get_extension(point, name, st).ret.val
    IN IF extension = NoneV
       THEN [st |-> st, ret |-> Raise(ErrNotFound)]
       ELSE ReadRef(extension, st)

find_extensions(point, predicate, st) ==
    IF point \notin DOMAIN st.extension_points
    THEN [st |-> st, ret |-> OkRet(<<>>)]
    ELSE LET point_extensions == st.extension_points[point]
         IN IF predicate = NoneV
            THEN [st |-> st, ret |-> OkRet(DictValues(point, point_extensions))]
            ELSE [st |-> st,
                  ret |-> OkRet(Filter(DictValues(point, point_extensions), predicate, st))]

RECURSIVE ComponentsOf(_, _, _)
RECURSIVE ComponentsNext(_, _, _)
\* [extension.component for extension in refs], the components read so far
\* in acc: the first loader that raises ends it.
ComponentsOf(refs, acc, st) ==
    IF refs = <<>> THEN [st |-> st, ret |-> OkRet(acc)]
    ELSE ComponentsNext(refs, acc, ReadRef(Head(refs), st))

\* r is the outcome of reading the first of refs.
ComponentsNext(refs, acc, r) ==
    IF Raised(r.ret) THEN r
    ELSE ComponentsOf(Tail(refs), Append(acc, r.ret.val), r.st)

ComponentsIn(found) == ComponentsOf(found.ret.val, <<>>, found.st)

find_components(point, predicate, st) ==
    ComponentsIn(find_extensions(point, predicate, st))

\* The serial of a new object for (point, name).
FreshSerial(point, name, st) ==
    IF /\ point \in DOMAIN st.extension_points
       /\ DictHas(st.extension_points[point], name)
       /\ st.extension_points[point][DictIndex(st.extension_points[point], name)].ext.serial = 1
    THEN 2 ELSE 1

\* Returns the new Extension (the object as constructed).
add_extension(point, name, comp, loader, st) ==
    LET err == ExtensionInitError(point, name, comp, loader)
        extension == NewExtension(point, name, comp, loader, FreshSerial(point, name, st))
    IN IF err # "" THEN [st |-> st, ret |-> Raise(err)]
       ELSE IF point \in DOMAIN st.extension_points
       THEN [st |-> [st EXCEPT !.extension_points[point] = DictSet(@, name, extension)],
             ret |-> OkRet(extension)]
       ELSE [st |-> [st EXCEPT !.extension_points =
                        [q \in DOMAIN @ \cup {point} |->
                            IF q = point THEN <<[name |-> name, ext |-> extension]>>
                            ELSE @[q]]],
             ret |-> OkRet(extension)]

remove_extension(point, name, st) ==
    IF point \notin DOMAIN st.extension_points
    THEN [st |-> st, ret |-> Raise("KeyError")]
    ELSE LET point_extensions == st.extension_points[point]
         IN IF ~DictHas(point_extensions, name)
            THEN [st |-> st, ret |-> Raise("KeyError")]
            ELSE [st |-> [st EXCEPT !.extension_points[point] = DictDel(@, name)],
                  ret |-> OkRet(NoneV)]

RECURSIVE EntriesToDict(_, _, _, _)
RECURSIVE EntriesNext(_, _, _, _)
\* {ek: ev.to_dict() for ek, ev in v.items()}, from entry i on, for point k.
EntriesToDict(k, i, acc, st) ==
    IF i > Len(st.extension_points[k]) THEN [st |-> st, ret |-> OkRet(acc)]
    ELSE EntriesNext(k, i, acc,
                     PutBack([point |-> k, i |-> i], st,
                             to_dict(st.extension_points[k][i].ext, st.sys)))

\* r is the outcome of to_dict() on entry i.
EntriesNext(k, i, acc, r) ==
    EntriesToDict(k, i + 1,
                  Append(acc, [name |-> r.st.extension_points[k][i].name,
                               dict |-> r.ret.val]),
                  r.st)

RECURSIVE PointsToDict(_, _, _)
RECURSIVE PointsNext(_, _, _, _)
RECURSIVE PointsRest(_, _, _, _)
\* {k: {...} for k, v in self._extension_points.items()}, acc the mapping
\* built so far.
PointsToDict(points, acc, st) ==
    IF points = {} THEN [st |-> st, ret |-> OkRet(acc)]
    ELSE PointsNext(points, CHOOSE q \in points : TRUE, acc, st)

PointsNext(points, k, acc, st) ==
    PointsRest(points, k, acc, EntriesToDict(k, 1, <<>>, st))

\* r is the outcome of the inner comprehension for point k.
PointsRest(points, k, acc, r) ==
    PointsToDict(points \ {k},
                 [q \in DOMAIN acc \cup {k} |-> IF q = k THEN r.ret.val ELSE acc[q]],
                 r.st)

\* ExtensionRegistry.to_dict
registry_to_dict(st) == PointsToDict(DOMAIN st.extension_points, <<>>, st)

----------------------------------------------------------------------------
(* The registry as a state machine: one action per operation.              *)

St == [extension_points |-> extension_points, sys |-> sys]

\* The Extension objects registered in the store st.
Registered(st) ==
    UNION {{st.extension_points[k][i].ext : i \in 1..Len(st.extension_points[k])} :
              k \in DOMAIN st.extension_points}

\* No loader has run more than MaxCalls times, and no more than MaxExtensions
\* Extensions are registered.
WithinBounds(st) ==
    /\ \A e \in Registered(st) : e.loads.n <= MaxCalls
    /\ Cardinality(Registered(st)) <= MaxExtensions
    /\ st.sys.imports <= MaxImports

\* The operation that returned r has run: the store is as it left it.
Commit(r) ==
    /\ WithinBounds(r.st)
    /\ extension_points' = r.st.extension_points
    /\ sys' = r.st.sys
    /\ UNCHANGED <<thrVars, tokVars, pfxVars, dsVars, runVars>>

\* History: owner[point] lists, in the order of their add_extension calls,
\* the identities of the objects whose (point, name) saw no successful
\* add_extension or remove_extension since; keys[point] lists, in the order
\* of those add_extension calls, the names that were added while no
\* Extension of that name was registered and that were not removed since.
Forget(seq, name) == SelectSeq(seq, LAMBDA x : x[2] # name)

Without(seq, name) == SelectSeq(seq, LAMBDA x : x # name)

Occurs(seq, x) == \E i \in 1..Len(seq) : seq[i] = x

AddCommit(point, name, r) ==
    /\ Commit(r)
    /\ owner' = IF Raised(r.ret) THEN owner
                ELSE [owner EXCEPT ![point] = Append(Forget(@, name), Ident(r.ret.val))]
    /\ keys' = IF Raised(r.ret) \/ Occurs(keys[point], name) THEN keys
               ELSE [keys EXCEPT ![point] = Append(@, name)]
    /\ UNCHANGED made

AddStep(point, name, comp, loader) ==
    AddCommit(point, name, add_extension(point, name, comp, loader, St))

PointInputs == Points \cup {NoStr}

NameInputs == Names \cup {NoStr}

ComponentInputs == {NoneV, Obj("X")}

LoaderInputs == {NoneV, NotCallable, ConstLoader(Obj("X"))}

AddExtension ==
    \E point \in PointInputs, name \in NameInputs,
       comp \in ComponentInputs, loader \in LoaderInputs :
        AddStep(point, name, comp, loader)

\* Loaders that return None, return a component, or raise.
LazyLoaders == {ConstLoader(NoneV), ConstLoader(Obj("X")), RaisingLoader}

AddLazyExtension ==
    \E name \in Names, loader \in LazyLoaders : AddStep("p", name, NoneV, loader)

RemoveCommit(point, name, r) ==
    /\ Commit(r)
    /\ owner' = IF Raised(r.ret) THEN owner
                ELSE [owner EXCEPT ![point] = Forget(@, name)]
    /\ keys' = IF Raised(r.ret) THEN keys
               ELSE [keys EXCEPT ![point] = Without(@, name)]
    /\ UNCHANGED made

RemoveExtension ==
    \E point \in Points, name \in Names :
        RemoveCommit(point, name, remove_extension(point, name, St))

HasExtension ==
    \E point \in Points, name \in Names :
        /\ Commit(has_extension(point, name, St))
        /\ UNCHANGED <<made, owner, keys>>

GetExtension ==
    \E point \in Points, name \in Names :
        /\ Commit(get_extension(point, name, St))
        /\ UNCHANGED <<made, owner, keys>>

GetComponent ==
    \E point \in Points, name \in Names :
        /\ Commit(get_component(point, name, St))
        /\ UNCHANGED <<made, owner, keys>>

FindExtensions ==
    \E point \in Points, predicate \in Predicates :
        /\ Commit(find_extensions(point, predicate, St))
        /\ UNCHANGED <<made, owner, keys>>

FindComponents ==
    \E point \in Points, predicate \in Predicates :
        /\ Commit(find_components(point, predicate, St))
        /\ UNCHANGED <<made, owner, keys>>

\* A holder of a registered Extension reads its component property.
ReadComponent ==
    \E point \in DOMAIN extension_points :
        \E i \in 1..Len(extension_points[point]) :
            /\ Commit(ReadRef([point |-> point, i |-> i], St))
            /\ UNCHANGED <<made, owner, keys>>

\* extension.to_dict() on a registered Extension.
ExtensionToDict ==
    \E point \in DOMAIN extension_points :
        \E i \in 1..Len(extension_points[point]) :
            /\ Commit(PutBack([point |-> point, i |-> i], St,
                              to_dict(extension_points[point][i].ext, sys)))
            /\ UNCHANGED <<made, owner, keys>>

RegistryToDict ==
    /\ Commit(registry_to_dict(St))
    /\ UNCHANGED <<made, owner, keys>>

\* No thread reads anything.
ScanStart == [i |-> 0, i0 |-> 0, sqs |-> FALSE, dqs |-> FALSE, es |-> FALSE, tokens |-> <<>>]

IdleTokenizer ==
    /\ value = <<>>
    /\ scan = ScanStart
    /\ tpc = "idle"
    /\ evaluated = NoneV

IdlePrefix ==
    /\ prefix = [given |-> FALSE]
    /\ normalized = NoneV

IdleDatasets ==
    /\ dataset_configs = <<>>
    /\ opened = <<>>
    /\ is_multi_level = FALSE

IdleScript ==
    /\ rpc = "idle"
    /\ conn = "none"
    /\ remote = [exists |-> FALSE]
    /\ file = [exists |-> FALSE, open |-> FALSE]
    /\ tmp_file = [exists |-> FALSE, open |-> FALSE]
    /\ file_before = file
    /\ attempts = [client |-> 0, download |-> 0, serve |-> 0]

IdleThreads ==
    /\ shared = 0
    /\ pc = <<>>
    /\ result = <<>>
    /\ returned = <<>>
    /\ started = 0
    /\ completed = 0

InitRegistry ==
    /\ IdleThreads
    /\ IdleScript
    /\ IdleDatasets
    /\ IdlePrefix
    /\ IdleTokenizer
    /\ extension_points = <<>>
    /\ sys = [imports |-> 0, transforms |-> 0, invoked |-> 0]
    /\ made = NoneV
    /\ owner = [k \in Points |-> <<>>]
    /\ keys = [k \in Points |-> <<>>]

NextRegistry ==
    \/ AddExtension
    \/ RemoveExtension
    \/ HasExtension
    \/ GetExtension
    \/ GetComponent
    \/ FindExtensions
    \/ FindComponents
    \/ ReadComponent
    \/ ExtensionToDict
    \/ RegistryToDict

\* The registry under add_extension with every combination of arguments.
SpecRegistry == InitRegistry /\ [][NextRegistry]_vars

NextLazy ==
    \/ AddLazyExtension
    \/ RemoveExtension
    \/ GetComponent
    \/ FindComponents
    \/ ReadComponent
    \/ ExtensionToDict
    \/ RegistryToDict

\* The registry with lazily constructed Extensions of one extension point.
SpecLazy == InitRegistry /\ [][NextLazy]_vars

\* import_component is called, once in a run, and its caller keeps the
\* loader it returns.
ImportCommit(r) ==
    /\ made = NoneV
    /\ made' = r.ret.val
    /\ sys' = r.sys
    /\ UNCHANGED <<extension_points, owner, keys, thrVars, tokVars, pfxVars, dsVars, runVars>>

ImportComponent ==
    \E spec \in StrsUpTo(MaxSpecLen), transform \in BOOLEAN,
       call \in BOOLEAN, call_args \in BOOLEAN :
        ImportCommit(import_component(spec, transform, call, call_args, sys))

\* add_extension("p", "a", loader=<the loader import_component returned>)
AddImportedExtension ==
    /\ made # NoneV
    /\ AddStep("p", "a", NoneV, made)

NextImport ==
    \/ ImportComponent
    \/ AddImportedExtension
    \/ RemoveExtension
    \/ GetComponent
    \/ FindComponents
    \/ ReadComponent
    \/ ExtensionToDict

\* The registry with Extensions whose loader import_component made.
SpecImport == InitRegistry /\ [][NextImport]_vars

----------------------------------------------------------------------------
(* Extension.component read by several threads.  The Extension was         *)
(* constructed with a loader that returns a new object on every run; the   *)
(* property                                                                *)
(*     if self._component is None and self._loader is not None:            *)
(*         self._component = self._loader(self)                            *)
(*     return self._component                                              *)
(* takes no lock, so a thread may be preempted between its test, the       *)
(* loader's run, the assignment and the return.                            *)

Threads == 1..NumThreads

\* A registry with no Extension, and no loader made by import_component.
IdleRegistry ==
    /\ extension_points = <<>>
    /\ sys = [imports |-> 0, transforms |-> 0, invoked |-> 0]
    /\ made = NoneV
    /\ owner = [k \in Points |-> <<>>]
    /\ keys = [k \in Points |-> <<>>]

InitThreads ==
    /\ IdleRegistry
    /\ IdleScript
    /\ IdleDatasets
    /\ IdlePrefix
    /\ IdleTokenizer
    /\ shared = 0
    /\ pc = [t \in Threads |-> "idle"]
    /\ result = [t \in Threads |-> 0]
    /\ returned = [t \in Threads |-> <<>>]
    /\ started = 0
    /\ completed = 0

\* The test of line 84, the loader being given.
NeedsLoad(c) == c = 0

\* if self._component is None and self._loader is not None
ThreadTest(t) ==
    /\ pc[t] = "idle"
    /\ Len(returned[t]) < MaxReads
    /\ pc' = [pc EXCEPT ![t] = IF NeedsLoad(shared) THEN "call" ELSE "return"]
    /\ UNCHANGED <<shared, result, returned, started, completed, regVars, tokVars, pfxVars, dsVars, runVars>>

\* self._loader(self) is called
ThreadCallsLoader(t) ==
    /\ pc[t] = "call"
    /\ started' = started + 1
    /\ pc' = [pc EXCEPT ![t] = "loading"]
    /\ UNCHANGED <<shared, result, returned, completed, regVars, tokVars, pfxVars, dsVars, runVars>>

\* the loader returns a new object
ThreadLoaderReturns(t) ==
    /\ pc[t] = "loading"
    /\ completed' = completed + 1
    /\ result' = [result EXCEPT ![t] = completed + 1]
    /\ pc' = [pc EXCEPT ![t] = "store"]
    /\ UNCHANGED <<shared, returned, started, regVars, tokVars, pfxVars, dsVars, runVars>>

\* self._component = <what the loader returned>
ThreadStores(t) ==
    /\ pc[t] = "store"
    /\ shared' = result[t]
    /\ pc' = [pc EXCEPT ![t] = "return"]
    /\ UNCHANGED <<result, returned, started, completed, regVars, tokVars, pfxVars, dsVars, runVars>>

\* return self._component
ThreadReturns(t) ==
    /\ pc[t] = "return"
    /\ returned' = [returned EXCEPT ![t] = Append(@, shared)]
    /\ pc' = [pc EXCEPT ![t] = "idle"]
    /\ UNCHANGED <<shared, result, started, completed, regVars, tokVars, pfxVars, dsVars, runVars>>

NextThreads ==
    \E t \in Threads :
        \/ ThreadTest(t)
        \/ ThreadCallsLoader(t)
        \/ ThreadLoaderReturns(t)
        \/ ThreadStores(t)
        \/ ThreadReturns(t)

SpecThreads == InitThreads /\ [][NextThreads]_vars

\* C2: in every interleaving of the threads' reads, the loader of the
\* Extension runs to completion at most once.
C2_LoaderCompletesOnce == completed <= 1

----------------------------------------------------------------------------
(* Properties of the registry *)

\* The Extension registered at (point, name) in the store st, or None.
Lookup(point, name, st) ==
    IF point \in DOMAIN st.extension_points /\ DictHas(st.extension_points[point], name)
    THEN st.extension_points[point][DictIndex(st.extension_points[point], name)].ext
    ELSE NoneV

\* The identity that the history gives (point, name): that of the Extension
\* of the last successful add_extension, if no remove_extension followed.
Owner(point, name) == {x \in {owner[point][i] : i \in 1..Len(owner[point])} : x[2] = name}

\* C1: a loader that returns a value runs at most once per Extension, on the
\* Extension itself, and every read after it returns the value it returned;
\* for every value the loader returns, None included.
C1_LoaderRunsOnce ==
    \A e \in Registered(St) :
        (is_lazy(e) /\ e.loader.kind = "const") =>
            /\ e.loads.n <= 1
            /\ e.loads.args \subseteq {Ident(e)}
            /\ e.loads.n = 1 => component(e, sys).ret = OkRet(e.loader.value)

\* C3: to_dict of an Extension and of the registry run no loader and leave
\* every Extension as it is; a lazily constructed Extension that was never
\* read is reported as "<not loaded yet>".
C3_ToDictLoadsNothing ==
    /\ \A e \in Registered(St) :
        /\ to_dict(e, sys).self = e
        /\ to_dict(e, sys).sys = sys
        /\ ~Raised(to_dict(e, sys).ret)
        /\ (is_lazy(e) /\ e.loads.n = 0) =>
              to_dict(e, sys).ret.val.component = Text(NotLoadedYet)
    /\ registry_to_dict(St).st = St
    /\ \A k \in DOMAIN extension_points :
        \A i \in 1..Len(extension_points[k]) :
            (is_lazy(extension_points[k][i].ext) /\ extension_points[k][i].ext.loads.n = 0) =>
                registry_to_dict(St).ret.val[k][i].dict.component = Text(NotLoadedYet)

\* C3 witness: a lazily constructed Extension that was never read is
\* registered beside one whose loader has run.
C3_Witness ==
    \E e, f \in Registered(St) :
        /\ is_lazy(e) /\ e.loads.n = 0
        /\ is_lazy(f) /\ f.loads.n > 0 /\ f.component # NoneV

\* What the loader of the Extension e raises or returns when it runs now.
LoaderOutcome(e) == CallLoader(e.loader, LoaderArgument(e), sys).ret

\* The Extension e is registered, was constructed with a loader, holds no
\* component, and its loader raises when it runs.
LoaderFails(e) ==
    /\ e # NoneV
    /\ is_lazy(e)
    /\ e.component = NoneV
    /\ Raised(LoaderOutcome(e))

\* What holds of get_component(point, name) and of the get_component after
\* it, r and r2 what they return, for the Extension e whose loader raises.
FailedReadLeaves(point, name, e, r, r2) ==
    /\ r.ret = LoaderOutcome(e)
    /\ component(e, sys).ret = LoaderOutcome(e)
    /\ has_extension(point, name, r.st).ret = OkRet(TRUE)
    /\ Len(r.st.extension_points[point]) = Len(extension_points[point])
    /\ Ident(Lookup(point, name, r.st)) = Ident(e)
    /\ Lookup(point, name, r.st).component = NoneV
    /\ Lookup(point, name, r.st).loads.n = e.loads.n + 1
    /\ to_dict(Lookup(point, name, r.st), r.st.sys).ret.val.component = Text(NotLoadedYet)
    /\ Raised(r2.ret)
    /\ Lookup(point, name, r2.st).loads.n = e.loads.n + 2
    /\ Lookup(point, name, r2.st).component = NoneV

InitErrors ==
    {"ValueError: point must be given", "ValueError: name must be given",
     "ValueError: either component or loader must be given",
     "ValueError: loader must be callable"}

\* The arguments with which the construction of an Extension is to succeed.
ValidArguments(point, name, comp, loader) ==
    /\ point # NoStr
    /\ name # NoStr
    /\ (comp = NoneV) # (loader = NoneV)
    /\ loader # NoneV => Callable(loader)

\* C4: add_extension succeeds exactly when point and name are given, exactly
\* one of component and loader is given and a given loader is callable;
\* otherwise it raises ValueError and leaves the registry as it was.
C4_AddValidation ==
    \A point \in PointInputs, name \in NameInputs,
       comp \in ComponentInputs, loader \in LoaderInputs :
        LET r == add_extension(point, name, comp, loader, St)
        IN /\ ~Raised(r.ret) <=> ValidArguments(point, name, comp, loader)
           /\ Raised(r.ret) => (r.ret.exc \in InitErrors /\ r.st = St)
           /\ ~Raised(r.ret) => Lookup(point, name, r.st) = r.ret.val

\* C4 witness: an Extension is registered at a (point, name) for which
\* add_extension with both a component and a loader fails.
C4_Witness ==
    /\ Lookup("p", "a", St) # NoneV
    /\ Raised(add_extension("p", "a", Obj("X"), ConstLoader(Obj("X")), St).ret)
    /\ Lookup("p", "a", add_extension("p", "a", Obj("X"), ConstLoader(Obj("X")), St).st)
          = Lookup("p", "a", St)

\* What reading the component of the Extension e is to return.
ExpectedComponent(e) == IF is_lazy(e) THEN e.loader.value ELSE e.component

\* C5: there is at most one Extension per (point, name); has_extension is
\* true exactly when the last successful operation on the pair was an
\* add_extension, get_extension then returns the Extension of that add and
\* get_component its component; otherwise get_extension returns None and
\* get_component raises ValueError.
C5_RegistryLookup ==
    /\ \A k \in DOMAIN extension_points :
        \A i, j \in 1..Len(extension_points[k]) :
            /\ extension_points[k][i].name = extension_points[k][j].name => i = j
            /\ extension_points[k][i].ext.point = k
            /\ extension_points[k][i].ext.name = extension_points[k][i].name
    /\ \A pn \in Pairs :
        LET has == has_extension(pn[1], pn[2], St)
            ext == get_extension(pn[1], pn[2], St)
            got == get_component(pn[1], pn[2], St)
        IN /\ has.ret.val <=> Owner(pn[1], pn[2]) # {}
           /\ has.st = St /\ ext.st = St
           /\ Owner(pn[1], pn[2]) # {} =>
                /\ ext.ret.val # NoneV
                /\ {Ident(Deref(ext.ret.val, St))} = Owner(pn[1], pn[2])
                /\ got.ret = OkRet(ExpectedComponent(Deref(ext.ret.val, St)))
           /\ Owner(pn[1], pn[2]) = {} =>
                /\ ext.ret = OkRet(NoneV)
                /\ got.ret = Raise(ErrNotFound)
                /\ got.st = St

\* C5 witness: an Extension was replaced by a later add_extension, and the
\* Extension of another name of the point was removed.
C5_Witness ==
    \E k \in DOMAIN extension_points :
        /\ Len(extension_points[k]) = 1
        /\ extension_points[k][1].ext.serial = 2
        /\ Len(keys[k]) = 1
        /\ \E q \in DOMAIN extension_points : extension_points[q] = <<>>

\* Whether the predicate holds of the Extension registered as (point, name).
Matches(predicate, point, name) ==
    \/ predicate = NoneV
    \/ predicate.kind = "name" /\ name = predicate.name
    \/ predicate.kind = "lazy" /\ Lookup(point, name, St).loader # NoneV

\* The identities of the Extensions that a list of references refers to.
Idents(refs, st) == [i \in 1..Len(refs) |-> Ident(Deref(refs[i], st))]

\* C6, as claimed: find_extensions returns the registered Extensions that
\* match, in the order in which they were added.
C6_InOrderOfAdds ==
    \A point \in Points, predicate \in Predicates :
        Idents(find_extensions(point, predicate, St).ret.val, St)
            = SelectSeq(owner[point], LAMBDA x : Matches(predicate, point, x[2]))

\* C6, amended: find_extensions returns the registered Extensions that
\* match, in the order in which their names were added to the point while
\* not registered (an Extension added for a registered name takes the place
\* of the one it replaces); an empty list for a point that is not
\* registered; and it loads no component.
C6_InOrderOfKeys ==
    \A point \in Points, predicate \in Predicates :
        LET r == find_extensions(point, predicate, St)
            names == SelectSeq(keys[point], LAMBDA n : Matches(predicate, point, n))
        IN /\ ~Raised(r.ret)
           /\ r.st = St
           /\ Len(r.ret.val) = Len(names)
           /\ \A i \in 1..Len(names) :
                /\ Deref(r.ret.val[i], St).name = names[i]
                /\ {Ident(Deref(r.ret.val[i], St))} = Owner(point, names[i])
           /\ point \notin DOMAIN extension_points => r.ret.val = <<>>

\* C6 witness: a point holds two Extensions, the first of them added after
\* the second (it replaced an Extension of its name), one of them lazy.
C6_Witness ==
    \E k \in DOMAIN extension_points :
        /\ Len(extension_points[k]) = 2
        /\ owner[k][2] = Ident(extension_points[k][1].ext)
        /\ \E i \in 1..2 : is_lazy(extension_points[k][i].ext)

\* C7: remove_extension raises KeyError and changes nothing when the point
\* or the name is not registered; otherwise it removes that one Extension
\* and leaves every other entry, and the order of the entries, as they were.
C7_Remove ==
    \A pn \in Pairs :
        LET r == remove_extension(pn[1], pn[2], St)
        IN IF Lookup(pn[1], pn[2], St) = NoneV
           THEN r.ret = Raise("KeyError") /\ r.st = St
           ELSE /\ r.ret = OkRet(NoneV)
                /\ Lookup(pn[1], pn[2], r.st) = NoneV
                /\ r.st.sys = sys
                /\ DOMAIN r.st.extension_points = DOMAIN extension_points
                /\ \A k \in DOMAIN extension_points :
                     r.st.extension_points[k]
                       = SelectSeq(extension_points[k],
                                   LAMBDA x : ~(k = pn[1] /\ x.name = pn[2]))

\* C7 witness: the only Extension of a point was removed while another point
\* holds two Extensions.
C7_Witness ==
    \E k, q \in DOMAIN extension_points :
        /\ extension_points[k] = <<>>
        /\ Len(extension_points[q]) = 2

\* The parts of an import spec: the text before its first colon, and the
\* text after it.
ModulePath(spec) ==
    IF \E i \in 1..Len(spec) : spec[i] = ":"
    THEN SubSeq(spec, 1, (CHOOSE i \in 1..Len(spec) :
                             spec[i] = ":" /\ \A j \in 1..(i - 1) : spec[j] # ":") - 1)
    ELSE spec

EndsAtFirstColon(spec) ==
    /\ Len(spec) > 0
    /\ spec[Len(spec)] = ":"
    /\ \A j \in 1..(Len(spec) - 1) : spec[j] # ":"

\* The error that the validation of an import spec is to raise, "" if none.
ExpectedSpecError(spec, call) ==
    IF call /\ (\A i \in 1..Len(spec) : spec[i] # ":") THEN ErrMustSpecify
    ELSE IF ModulePath(spec) = <<>> THEN ErrMissingModule
    ELSE IF EndsAtFirstColon(spec) THEN ErrMissingName
    ELSE ""

\* C8: the loader that import_component(spec, call=...) made raises
\* 'must specify a component' for a spec without colon when call is set,
\* else 'missing module path' for an empty module path, else 'missing
\* component name' for an empty name after the colon, and imports no module
\* when it raises one of them; so does a read of the component of an
\* Extension that has this loader.
C8_SpecValidation ==
    made # NoneV =>
        LET expected == ExpectedSpecError(made.spec, made.call)
            r == ImportSpec(made.spec, made.call, sys)
        IN /\ expected # "" => (r.ret = Raise(expected) /\ r.sys = sys)
           /\ expected = "" => (r.ret.exc \notin SpecErrors /\ r.sys.imports = sys.imports + 1)
           /\ \A e \in Registered(St) :
                (expected # "" /\ e.loader = made) =>
                    /\ e.component = NoneV
                    /\ component(e, sys).ret = Raise(expected)
                    /\ component(e, sys).sys = sys

\* C8 witness: the loader of a registered Extension has run on the spec ":"
\* with the call flag set, a spec to which all three rules apply.
C8_Witness ==
    /\ made # NoneV
    /\ made.spec = <<":">>
    /\ made.call
    /\ \E e \in Registered(St) : e.loader = made /\ e.loads.n > 0

\* Some registered Extension's loader runs in this step.
LoaderRuns ==
    \E k \in DOMAIN extension_points :
        \E i \in 1..Len(extension_points[k]) :
            /\ k \in DOMAIN extension_points'
            /\ i <= Len(extension_points'[k])
            /\ Ident(extension_points'[k][i].ext) = Ident(extension_points[k][i].ext)
            /\ extension_points'[k][i].ext.loads.n > extension_points[k][i].ext.loads.n

\* C9: import_component returns a loader for every spec, raises nothing and
\* imports, transforms and calls nothing; neither does add_extension with
\* that loader.  Modules are imported, transforms applied and components
\* called only in a step in which the loader of an Extension runs, and a
\* loader whose spec is valid then imports its module.
C9_ResolvedOnRead ==
    [][/\ made' # made => (made'.kind = "import" /\ sys' = sys)
       /\ sys' # sys => LoaderRuns
       /\ (LoaderRuns /\ ExpectedSpecError(made.spec, made.call) = "") =>
              sys'.imports > sys.imports
       /\ (LoaderRuns /\ ExpectedSpecError(made.spec, made.call) # "") => sys' = sys]_vars

\* C9 witness: a loader made for the invalid spec "" is the loader of a
\* registered Extension that was not read, and nothing was imported.
C9_Witness ==
    /\ made # NoneV
    /\ made.spec = <<>>
    /\ sys.imports = 0
    /\ \E e \in Registered(St) : e.loader = made /\ e.loads.n = 0

----------------------------------------------------------------------------
(* ResourcesContext._tokenize_value and _eval_config_str_value.  A string  *)
(* is a sequence of characters; i and i0 are Python's indices, from 0.     *)

ValueChars == {"\\", "'", "\"", "$", "{", "}", "1"}

RECURSIVE ValuesUpTo(_)
ValuesUpTo(n) ==
    IF n = 0 THEN {<<>>}
    ELSE LET shorter == ValuesUpTo(n - 1)
         IN shorter \cup {Append(s, c) : s \in shorter, c \in ValueChars}

\* value[a:b]
Slice(v, a, b) == SubSeq(v, a + 1, b)

\* The tokens: a str, or a 1-tuple that holds an expression.
StrToken(text) == [kind |-> "str", text |-> text]

ExprToken(text) == [kind |-> "expr", text |-> text]

\* if i0 < i: yield value[i0:i]; es = True; i0 = i + 2
ScanOpen(t, v) ==
    [t EXCEPT !.i = @ + 1,
              !.tokens = IF t.i0 < t.i THEN Append(@, StrToken(Slice(v, t.i0, t.i))) ELSE @,
              !.es = TRUE,
              !.i0 = t.i + 2]

\* The end of an expression after which the next token starts at the "}".
ScanClose_KeepingBrace(t, v) ==
    [t EXCEPT !.i = @ + 1,
              !.es = FALSE,
              !.tokens = Append(@, ExprToken(Slice(v, t.i0, t.i))),
              !.i0 = t.i]

\* es = False; yield value[i0:i],; i0 = i + 1
ScanClose(t, v) ==
    [t EXCEPT !.i = @ + 1,
              !.es = FALSE,
              !.tokens = Append(@, ExprToken(Slice(v, t.i0, t.i))),
              !.i0 = t.i + 1]

\* A loop body that recognises "${" inside quotes as well.
ScanChar_IgnoringQuotes(t, v, c) ==
    IF c = "\\" THEN [t EXCEPT !.i = @ + 1]
    ELSE IF c = "'" /\ ~t.dqs THEN [t EXCEPT !.i = @ + 1, !.sqs = ~@]
    ELSE IF c = "\"" /\ ~t.sqs THEN [t EXCEPT !.i = @ + 1, !.dqs = ~@]
    ELSE IF c = "$" /\ ~t.es
    THEN IF t.i < Len(v) - 1 /\ v[t.i + 2] = "{"
         THEN ScanOpen(t, v)
         ELSE [t EXCEPT !.i = @ + 1]
    ELSE IF c = "}" /\ t.es THEN ScanClose(t, v)
    ELSE [t EXCEPT !.i = @ + 1]

\* A loop body in which a backslash escapes the character after it: that
\* character is passed over whatever it is.
ScanChar_Escaping(t, v, c) ==
    IF c = "\\" THEN [t EXCEPT !.i = @ + 1]
    ELSE IF t.i > 0 /\ v[t.i] = "\\" THEN [t EXCEPT !.i = @ + 1]
    ELSE IF c = "'" /\ ~t.dqs THEN [t EXCEPT !.i = @ + 1, !.sqs = ~@]
    ELSE IF c = "\"" /\ ~t.sqs THEN [t EXCEPT !.i = @ + 1, !.dqs = ~@]
    ELSE IF c = "$" /\ ~(t.sqs \/ t.dqs \/ t.es)
    THEN IF t.i < Len(v) - 1 /\ v[t.i + 2] = "{"
         THEN ScanOpen(t, v)
         ELSE [t EXCEPT !.i = @ + 1]
    ELSE IF c = "}" /\ t.es THEN ScanClose(t, v)
    ELSE [t EXCEPT !.i = @ + 1]

\* One pass of the loop `for i in range(n)`, on the character c = value[i].
\* The loop variable takes the next value of the range whatever the body
\* assigned to it.
ScanChar(t, v, c) ==
    IF c = "\\" THEN [t EXCEPT !.i = @ + 1]
    ELSE IF c = "'" /\ ~t.dqs THEN [t EXCEPT !.i = @ + 1, !.sqs = ~@]
    ELSE IF c = "\"" /\ ~t.sqs THEN [t EXCEPT !.i = @ + 1, !.dqs = ~@]
    ELSE IF c = "$" /\ ~(t.sqs \/ t.dqs \/ t.es)
    THEN IF t.i < Len(v) - 1 /\ v[t.i + 2] = "{"
         THEN ScanOpen(t, v)
         ELSE [t EXCEPT !.i = @ + 1]
    ELSE IF c = "}" /\ t.es THEN ScanClose(t, v)
    ELSE [t EXCEPT !.i = @ + 1]

\* A tokenizer that yields nothing after an expression that was not closed.
ScanEnd_Discarding(t, v) ==
    IF t.i0 = 0 THEN [t EXCEPT !.tokens = Append(@, StrToken(v))]
    ELSE IF t.i0 < Len(v) /\ ~t.es
    THEN [t EXCEPT !.tokens = Append(@, StrToken(Slice(v, t.i0, Len(v))))]
    ELSE t

\* After the loop: if i0 == 0: yield value; elif i0 < n: yield value[i0:n]
ScanEnd(t, v) ==
    IF t.i0 = 0 THEN [t EXCEPT !.tokens = Append(@, StrToken(v))]
    ELSE IF t.i0 < Len(v)
    THEN [t EXCEPT !.tokens = Append(@, StrToken(Slice(v, t.i0, Len(v))))]
    ELSE t

RECURSIVE ScanFrom(_, _)
ScanFrom(t, v) ==
    IF t.i < Len(v) THEN ScanFrom(ScanChar(t, v, v[t.i + 1]), v) ELSE ScanEnd(t, v)

\* list(_tokenize_value(value))
Tokenize(v) == ScanFrom(ScanStart, v).tokens

\* The values: a str, or the int that a string of digits denotes.
StrValue(text) == [kind |-> "str", text |-> text]

IntValue(digits) == [kind |-> "int", digits |-> digits]

IsDigits(e) == Len(e) > 0 /\ \A i \in 1..Len(e) : e[i] = "1"

\* A string literal without escapes: a quote, text without that quote, the quote.
IsLiteral(e) ==
    /\ Len(e) >= 2
    /\ e[1] \in {"'", "\""}
    /\ e[Len(e)] = e[1]
    /\ \A i \in 2..(Len(e) - 1) : e[i] \notin {e[1], "\\"}

\* eval(expression, None, self.new_eval_env()), for the expressions of up to
\* three characters over ValueChars: digits are an int, a literal is a str,
\* and no other such text is a Python expression.
eval(expression) ==
    IF IsDigits(expression) THEN OkRet(IntValue(expression))
    ELSE IF IsLiteral(expression)
    THEN OkRet(StrValue(SubSeq(expression, 2, Len(expression) - 1)))
    ELSE Raise("SyntaxError")

\* str(v)
str(v) == IF v.kind = "int" THEN v.digits ELSE v.text

RECURSIVE EvalNext(_, _, _, _)
\* list(self._eval_value(value)) from token k on, acc the values so far and
\* r the outcome of the evaluation of token k.
EvalNext(tokens, k, acc, r) ==
    IF Raised(r) THEN r
    ELSE IF k = Len(tokens) THEN OkRet(Append(acc, r.val))
    ELSE EvalNext(tokens, k + 1, Append(acc, r.val),
                  IF tokens[k + 1].kind = "expr" THEN eval(tokens[k + 1].text)
                  ELSE OkRet(StrValue(tokens[k + 1].text)))

eval_value(tokens) ==
    IF tokens = <<>> THEN OkRet(<<>>)
    ELSE EvalNext(tokens, 1, <<>>,
                  IF tokens[1].kind = "expr" THEN eval(tokens[1].text)
                  ELSE OkRet(StrValue(tokens[1].text)))

RECURSIVE Join(_)
\* "".join([str(v) for v in values])
Join(values) == IF values = <<>> THEN <<>> ELSE str(Head(values)) \o Join(Tail(values))

\* An _eval_config_str_value that returns text whenever there is a token.
EvalResult_AlwaysText(v, r) ==
    IF Raised(r) THEN r
    ELSE IF Len(r.val) >= 1 THEN OkRet(StrValue(Join(r.val)))
    ELSE OkRet(StrValue(v))

\* The end of _eval_config_str_value, r the outcome of list(self._eval_value(value)).
EvalResult(v, r) ==
    IF Raised(r) THEN r
    ELSE IF Len(r.val) > 1 THEN OkRet(StrValue(Join(r.val)))
    ELSE IF Len(r.val) = 1 THEN OkRet(r.val[1])
    ELSE OkRet(StrValue(v))

\* _eval_config_str_value(value), tokens what _tokenize_value yields for it.
eval_config_str_value(v, tokens) == EvalResult(v, eval_value(tokens))

\* The loop of _tokenize_value takes the next character.
ScanCharacter ==
    /\ tpc = "scan"
    /\ scan.i < Len(value)
    /\ scan' = ScanChar(scan, value, value[scan.i + 1])
    /\ UNCHANGED <<value, tpc, evaluated, regVars, thrVars, pfxVars, dsVars, runVars>>

\* The loop is over: the rest of the string is yielded.
ScanFinish ==
    /\ tpc = "scan"
    /\ scan.i = Len(value)
    /\ scan' = ScanEnd(scan, value)
    /\ tpc' = "eval"
    /\ UNCHANGED <<value, evaluated, regVars, thrVars, pfxVars, dsVars, runVars>>

\* _eval_config_str_value evaluates the tokens and returns.
EvalConfigStrValue ==
    /\ tpc = "eval"
    /\ evaluated' = eval_config_str_value(value, scan.tokens)
    /\ tpc' = "done"
    /\ UNCHANGED <<value, scan, regVars, thrVars, pfxVars, dsVars, runVars>>

InitTokenize ==
    /\ IdleRegistry
    /\ IdleScript
    /\ IdleDatasets
    /\ IdlePrefix
    /\ IdleThreads
    /\ value \in ValuesUpTo(MaxValueLen)
    /\ scan = ScanStart
    /\ tpc = "scan"
    /\ evaluated = NoneV

NextTokenize ==
    \/ ScanCharacter
    \/ ScanFinish
    \/ EvalConfigStrValue

\* eval_config_value(value) for every string value of up to MaxValueLen characters.
SpecTokenize == InitTokenize /\ [][NextTokenize]_vars

\* The scan of value is over and left an expression open: a "${" outside
\* quotes after which no "}" follows.
Unterminated == tpc \in {"eval", "done"} /\ scan.es

\* The text before the "${" that was left open, the text after it, and the
\* tokens yielded before it.
OpenPrefix == Slice(value, 0, scan.i0 - 2)

OpenTail == Slice(value, scan.i0, Len(value))

TokensBeforeOpen == IF OpenPrefix = <<>> THEN <<>> ELSE Tokenize(OpenPrefix)

\* C10, as claimed: the text of an expression that is not closed is yielded
\* in no token; the tokens are those before its "${", and they are what is
\* evaluated.
C10_UnterminatedDiscarded ==
    Unterminated =>
        /\ scan.tokens = TokensBeforeOpen
        /\ tpc = "done" => evaluated = eval_config_str_value(value, TokensBeforeOpen)

\* C10, amended: of an expression that is not closed the "${" is dropped and
\* the text after it, if there is any, is yielded as a last str token, which
\* is not evaluated; no error is raised for it.  With plain text before the
\* "${", the value is the text before and the text after it, joined, and
\* the string itself if both are empty.
C10_UnterminatedTail ==
    Unterminated =>
        /\ scan.tokens = TokensBeforeOpen
                            \o (IF OpenTail = <<>> THEN <<>> ELSE <<StrToken(OpenTail)>>)
        /\ (\A k \in 1..Len(TokensBeforeOpen) : TokensBeforeOpen[k].kind = "str")
              => /\ scan.tokens \in {<<>>, <<StrToken(OpenPrefix)>>, <<StrToken(OpenTail)>>,
                                     <<StrToken(OpenPrefix), StrToken(OpenTail)>>}
                 /\ tpc = "done" =>
                      evaluated = OkRet(StrValue(IF OpenPrefix \o OpenTail = <<>> THEN value
                                                 ELSE OpenPrefix \o OpenTail))

\* C10 witness: the evaluation of "1${1" has returned.
C10_Witness ==
    /\ tpc = "done"
    /\ value = <<"1", "$", "{", "1">>
    /\ scan.es

\* The value of a token: the text of a str token, what eval gives for an
\* expression token.
TokenValue(token) ==
    IF token.kind = "expr" THEN eval(token.text) ELSE OkRet(StrValue(token.text))

RECURSIVE TextOfTokens(_)
\* The texts of the tokens' values, put together in the tokens' order.
TextOfTokens(tokens) ==
    IF tokens = <<>> THEN <<>>
    ELSE (IF TokenValue(Head(tokens)).val.kind = "int"
          THEN TokenValue(Head(tokens)).val.digits
          ELSE TokenValue(Head(tokens)).val.text) \o TextOfTokens(Tail(tokens))

\* C11: when the string has exactly one token and it is an expression,
\* eval_config_value returns the value of the expression as it is (an int
\* stays an int), or raises what its evaluation raises; when it has more
\* than one token and their evaluation raises nothing, it returns the str
\* that joins, in order, the plain tokens and the texts of the values of the
\* expressions.
C11_NativeOrText ==
    tpc = "done" =>
        /\ (Len(scan.tokens) = 1 /\ scan.tokens[1].kind = "expr") =>
              evaluated = eval(scan.tokens[1].text)
        /\ (Len(scan.tokens) > 1
              /\ \A k \in 1..Len(scan.tokens) : ~Raised(TokenValue(scan.tokens[k]))) =>
              evaluated = OkRet(StrValue(TextOfTokens(scan.tokens)))
        /\ value = <<"$", "{", "1", "}">> => evaluated = OkRet(IntValue(<<"1">>))
        /\ value = <<"1", "$", "{", "1", "}">> => evaluated = OkRet(StrValue(<<"1", "1">>))

\* C11 witness: the evaluation of "1${1}", a plain token and an expression
\* whose value is an int, has returned.
C11_Witness ==
    /\ tpc = "done"
    /\ value = <<"1", "$", "{", "1", "}">>
    /\ scan.tokens = <<StrToken(<<"1">>), ExprToken(<<"1">>)>>
    /\ ~Raised(evaluated)

RECURSIVE QuoteAfter(_, _)
\* The quoted span that the first k characters of v leave open: "'" or "\""
\* for a span opened by that quote character and not yet closed by it, ""
\* for none.  Inside a span only its own quote character counts.
QuoteAfter(v, k) ==
    IF k = 0 THEN ""
    ELSE LET before == QuoteAfter(v, k - 1)
         IN IF v[k] \notin {"'", "\""} THEN before
            ELSE IF before = "" THEN v[k]
            ELSE IF before = v[k] THEN ""
            ELSE before

\* The indices i, from 0, at which a "${" stands outside quotes in v.
UnquotedOpens(v) ==
    {i \in 0..(Len(v) - 2) : v[i + 1] = "$" /\ v[i + 2] = "{" /\ QuoteAfter(v, i) = ""}

\* C12: the scan is inside a quoted span exactly where a quote character
\* opened it and the same character has not closed it; the "${" of an
\* expression that the scan has open stands outside quotes; and a string
\* without a "${" outside quotes has the one token that is the whole string,
\* and evaluates to itself.
C12_QuotesSuppress ==
    /\ tpc \in {"scan", "eval", "done"} =>
          /\ scan.sqs <=> QuoteAfter(value, scan.i) = "'"
          /\ scan.dqs <=> QuoteAfter(value, scan.i) = "\""
          /\ (tpc = "scan" /\ scan.es) => (scan.i0 - 2) \in UnquotedOpens(value)
    /\ (tpc \in {"eval", "done"} /\ UnquotedOpens(value) = {}) =>
          /\ scan.tokens = <<StrToken(value)>>
          /\ tpc = "done" => evaluated = OkRet(StrValue(value))

\* C12 witness: the evaluation of '"${' (in single quotes, a double quote
\* before the "${") has returned.
C12_Witness ==
    /\ tpc = "done"
    /\ value = <<"'", "\"", "$", "{", "'">>
    /\ evaluated = OkRet(StrValue(value))

\* The string v with "1", a character that the tokenizer gives no meaning,
\* in the place of each backslash.
Plain(v) == [k \in 1..Len(v) |-> IF v[k] = "\\" THEN "1" ELSE v[k]]

PlainTokens(tokens) == [j \in 1..Len(tokens) |-> [tokens[j] EXCEPT !.text = Plain(@)]]

\* C22: a backslash changes nothing but the position of the scan, and the
\* tokens of a string are, backslashes aside, those of the string with a
\* plain character in the place of each backslash: the character after a
\* backslash opens an expression, closes one or toggles the quote state as
\* it does after any plain character.  So "\${1}" has the tokens "\" and
\* (1,), and in "\'${}" the quote after the backslash opens a quoted span,
\* in which "${" opens nothing.
C22_BackslashOnlySkipped ==
    /\ (tpc = "scan" /\ scan.i < Len(value) /\ value[scan.i + 1] = "\\") =>
          ScanChar(scan, value, "\\") = [scan EXCEPT !.i = @ + 1]
    /\ (tpc = "scan" /\ scan.i < Len(value) /\ scan.i > 0 /\ value[scan.i] = "\\") =>
          LET c == value[scan.i + 1]
              next == ScanChar(scan, value, c)
          IN /\ (c = "'" /\ ~scan.dqs) => next.sqs # scan.sqs
             /\ (c = "\"" /\ ~scan.sqs) => next.dqs # scan.dqs
             /\ (c = "$" /\ ~(scan.sqs \/ scan.dqs \/ scan.es)
                   /\ scan.i + 2 <= Len(value) /\ value[scan.i + 2] = "{") =>
                   /\ next.es
                   /\ next.i0 = scan.i + 2
                   /\ next.tokens = Append(scan.tokens,
                                           StrToken(Slice(value, scan.i0, scan.i)))
             /\ (c = "}" /\ scan.es) => ~next.es
    /\ tpc \in {"eval", "done"} =>
          /\ PlainTokens(scan.tokens) = Tokenize(Plain(value))
          /\ value = <<"\\", "$", "{", "1", "}">> =>
                scan.tokens = <<StrToken(<<"\\">>), ExprToken(<<"1">>)>>
          /\ value = <<"\\", "'", "$", "{", "}">> =>
                scan.tokens = <<StrToken(value)>>

\* C22 witness: the evaluation of "\${1}" has returned 1 after the
\* backslash.
C22_Witness ==
    /\ tpc = "done"
    /\ value = <<"\\", "$", "{", "1", "}">>
    /\ scan.tokens = <<StrToken(<<"\\">>), ExprToken(<<"1">>)>>
    /\ evaluated = OkRet(StrValue(<<"\\", "1">>))

RECURSIVE Rewrap(_)
\* The tokens put together in their order, the source of each expression
\* token between "${" and "}".
Rewrap(tokens) ==
    IF tokens = <<>> THEN <<>>
    ELSE (IF Head(tokens).kind = "expr"
          THEN <<"$", "{">> \o Head(tokens).text \o <<"}">>
          ELSE Head(tokens).text) \o Rewrap(Tail(tokens))

\* C24: when the scan of a string is over and has left no expression open,
\* the tokens, each expression between "${" and "}" again, make up the
\* string, character by character, and no str token is empty unless the
\* string is empty (its one token is then the empty str).
C24_TokensRoundTrip ==
    (tpc \in {"eval", "done"} /\ ~scan.es) =>
        /\ Rewrap(scan.tokens) = value
        /\ \A k \in 1..Len(scan.tokens) :
              (scan.tokens[k].kind = "str" /\ scan.tokens[k].text = <<>>) => value = <<>>
        /\ value = <<>> => scan.tokens = <<StrToken(<<>>)>>

\* C24 witness: the scan of "1${}1" is over: plain text, an expression
\* without source, plain text.
C24_Witness ==
    /\ tpc = "eval"
    /\ value = <<"1", "$", "{", "}", "1">>
    /\ scan.tokens = <<StrToken(<<"1">>), ExprToken(<<>>), StrToken(<<"1">>)>>

----------------------------------------------------------------------------
(* ResourcesContext.eval_config_value on any value: a dict is a sequence   *)
(* of items [key, val] in insertion order, a list a sequence of items.     *)

ListValue(items) == [kind |-> "list", items |-> items]

DictValue(items) == [kind |-> "dict", items |-> items]

\* The strings "1", "${1}", "1${1}" and "${}", whose evaluation raises.
ConfigStrings ==
    {<<"1">>, <<"$", "{", "1", "}">>, <<"1", "$", "{", "1", "}">>, <<"$", "{", "}">>}

\* The values that are neither dict nor list: a str, or an int.
ConfigLeaves == {StrValue(t) : t \in ConfigStrings} \cup {IntValue(<<"1">>)}

RECURSIVE SeqsUpTo(_, _)
\* The sequences of up to n elements of S.
SeqsUpTo(S, n) ==
    IF n = 0 THEN {<<>>}
    ELSE LET shorter == SeqsUpTo(S, n - 1)
         IN shorter \cup {Append(q, x) : q \in shorter, x \in S}

\* The lists of up to MaxItems elements of S, and the dicts that map "a",
\* or "a" and "b" in either order, to elements of S.
ContainersOf(S) ==
    {ListValue(q) : q \in SeqsUpTo(S, MaxItems)}
        \cup {DictValue(<<>>)}
        \cup {DictValue(<<[key |-> "a", val |-> x]>>) : x \in S}
        \cup {DictValue(<<[key |-> k[1], val |-> x], [key |-> k[2], val |-> y]>>) :
                 k \in {<<"a", "b">>, <<"b", "a">>}, x \in S, y \in S}

\* The containers of one container and at most one leaf.
NestedOf(S) ==
    {ListValue(<<x>>) : x \in S}
        \cup {ListValue(<<l, x>>) : l \in ConfigLeaves, x \in S}
        \cup {DictValue(<<[key |-> "a", val |-> x]>>) : x \in S}
        \cup {DictValue(<<[key |-> "b", val |-> l], [key |-> "a", val |-> x]>>) :
                 l \in ConfigLeaves, x \in S}

ConfigValues == ConfigLeaves \cup ContainersOf(ConfigLeaves) \cup NestedOf(ContainersOf(ConfigLeaves))

RECURSIVE eval_config_value(_)
RECURSIVE EvalListItems(_, _, _)
RECURSIVE EvalDictItems(_, _, _)

\* [self.eval_config_value(v) for v in value], r the outcome for item k and
\* acc the items before it.
EvalListNext(items, k, acc, r) ==
    IF Raised(r) THEN r ELSE EvalListItems(items, k + 1, Append(acc, r.val))

EvalListItems(items, k, acc) ==
    IF k > Len(items) THEN OkRet(ListValue(acc))
    ELSE EvalListNext(items, k, acc, eval_config_value(items[k]))

\* A dict comprehension that keeps the values as they are.
EvalDictNext_KeepingValues(items, k, acc, r) ==
    EvalDictItems(items, k + 1, Append(acc, [key |-> items[k].key, val |-> items[k].val]))

\* {k: self.eval_config_value(v) for k, v in value.items()}, r the outcome
\* for item k and acc the items before it.
EvalDictNext(items, k, acc, r) ==
    IF Raised(r) THEN r
    ELSE EvalDictItems(items, k + 1, Append(acc, [key |-> items[k].key, val |-> r.val]))

EvalDictItems(items, k, acc) ==
    IF k > Len(items) THEN OkRet(DictValue(acc))
    ELSE EvalDictNext(items, k, acc, eval_config_value(items[k].val))

\* eval_config_value(value)
eval_config_value(v) ==
    IF v.kind = "dict" THEN EvalDictItems(v.items, 1, <<>>)
    ELSE IF v.kind = "list" THEN EvalListItems(v.items, 1, <<>>)
    ELSE IF v.kind = "str" THEN eval_config_str_value(v.text, Tokenize(v.text))
    ELSE OkRet(v)

\* eval_config_value is called on value and returns.
EvalConfigValue ==
    /\ tpc = "config"
    /\ evaluated' = eval_config_value(value)
    /\ tpc' = "returned"
    /\ UNCHANGED <<value, scan, regVars, thrVars, pfxVars, dsVars, runVars>>

InitConfig ==
    /\ IdleRegistry
    /\ IdleScript
    /\ IdleDatasets
    /\ IdlePrefix
    /\ IdleThreads
    /\ value \in ConfigValues
    /\ scan = ScanStart
    /\ tpc = "config"
    /\ evaluated = NoneV

NextConfig == EvalConfigValue

\* eval_config_value(value) for the values of ConfigValues.
SpecConfig == InitConfig /\ [][NextConfig]_vars

RECURSIVE Evaluates(_, _)
\* r is v with every str in it evaluated by the string rule: a dict of the
\* same keys in the same order, a list of the same length and order, the
\* value of a str, and v itself if v is none of these.
Evaluates(v, r) ==
    IF v.kind = "dict"
    THEN /\ r.kind = "dict"
         /\ Len(r.items) = Len(v.items)
         /\ \A i \in 1..Len(v.items) :
               /\ r.items[i].key = v.items[i].key
               /\ Evaluates(v.items[i].val, r.items[i].val)
    ELSE IF v.kind = "list"
    THEN /\ r.kind = "list"
         /\ Len(r.items) = Len(v.items)
         /\ \A i \in 1..Len(v.items) : Evaluates(v.items[i], r.items[i])
    ELSE IF v.kind = "str"
    THEN OkRet(r) = eval_config_str_value(v.text, Tokenize(v.text))
    ELSE r = v

RECURSIVE StringsIn(_)
\* The strings in a value.
StringsIn(v) ==
    IF v.kind = "dict" THEN UNION {StringsIn(v.items[i].val) : i \in 1..Len(v.items)}
    ELSE IF v.kind = "list" THEN UNION {StringsIn(v.items[i]) : i \in 1..Len(v.items)}
    ELSE IF v.kind = "str" THEN {v.text}
    ELSE {}

\* C13: eval_config_value raises only what the evaluation of a string in the
\* value raises; otherwise it returns, for a dict, a dict of the same keys
\* whose values are the evaluations of the values, for a list, the list of
\* the evaluations of its items in their order, for a str, what the string
\* rule gives, and any other value as it is.
C13_ShapePreserved ==
    tpc = "returned" =>
        /\ Raised(evaluated) <=>
              \E t \in StringsIn(value) : Raised(eval_config_str_value(t, Tokenize(t)))
        /\ ~Raised(evaluated) => Evaluates(value, evaluated.val)

\* C13 witness: eval_config_value has returned {"b": 1, "a": ["${1}", "1"]}
\* evaluated: the dict and the list in it keep their shape, the int stays
\* and the expression is an int.
C13_Witness ==
    /\ tpc = "returned"
    /\ value = DictValue(<<[key |-> "b", val |-> IntValue(<<"1">>)],
                           [key |-> "a",
                            val |-> ListValue(<<StrValue(<<"$", "{", "1", "}">>),
                                                StrValue(<<"1">>)>>)]>>)
    /\ evaluated = OkRet(DictValue(<<[key |-> "b", val |-> IntValue(<<"1">>)],
                                     [key |-> "a",
                                      val |-> ListValue(<<IntValue(<<"1">>),
                                                          StrValue(<<"1">>)>>)]>>))

----------------------------------------------------------------------------
(* normalize_prefix *)

\* xcube.version.version, the version of the running software
version == <<"1", ".", "2">>

NamePlaceholder == <<"$", "{", "n", "a", "m", "e", "}">>

VersionPlaceholder == <<"$", "{", "v", "e", "r", "s", "i", "o", "n", "}">>

\* The pieces that prefixes are made of.
PrefixPieces == {<<"/">>, <<"a">>, NamePlaceholder, VersionPlaceholder}

RECURSIVE Concat(_)
Concat(pieces) == IF pieces = <<>> THEN <<>> ELSE Head(pieces) \o Concat(Tail(pieces))

PrefixInputs ==
    {[given |-> FALSE]}
        \cup {[given |-> TRUE, str |-> Concat(q)] : q \in SeqsUpTo(PrefixPieces, MaxPieces)}

RECURSIVE Replace(_, _, _)
\* s.replace(old, new): the occurrences of old that do not overlap, from the left.
Replace(s, old, new) ==
    IF Len(s) < Len(old) THEN s
    ELSE IF SubSeq(s, 1, Len(old)) = old
    THEN new \o Replace(SubSeq(s, Len(old) + 1, Len(s)), old, new)
    ELSE <<Head(s)>> \o Replace(Tail(s), old, new)

\* if prefix.endswith('/'): prefix = prefix[0:-1]
StripSlash(s) ==
    IF Len(s) > 0 /\ s[Len(s)] = "/" THEN SubSeq(s, 1, Len(s) - 1) ELSE s

\* if not prefix.startswith('/'): prefix = '/' + prefix
LeadSlash(s) ==
    IF Len(s) > 0 /\ s[1] = "/" THEN s ELSE <<"/">> \o s

\* The end of normalize_prefix, s the prefix after the replacements.
NormalizeEnd(s) == IF s = <<"/">> THEN <<>> ELSE StripSlash(LeadSlash(s))

\* normalize_prefix(prefix)
normalize_prefix(p) ==
    IF ~p.given \/ p.str = <<>> THEN <<>>
    ELSE NormalizeEnd(
             Replace(Replace(Replace(Replace(p.str, NamePlaceholder,
                                             <<"x", "c", "u", "b", "e">>),
                                     VersionPlaceholder, version),
                             <<"/", "/">>, <<"/">>),
                     <<"/", "/">>, <<"/">>))

\* normalize_prefix is called on prefix and returns.
NormalizePrefix ==
    /\ normalized = NoneV
    /\ normalized' = StrValue(normalize_prefix(prefix))
    /\ UNCHANGED <<prefix, regVars, thrVars, tokVars, dsVars, runVars>>

InitPrefix ==
    /\ IdleRegistry
    /\ IdleScript
    /\ IdleDatasets
    /\ IdleThreads
    /\ IdleTokenizer
    /\ prefix \in PrefixInputs
    /\ normalized = NoneV

NextPrefix == NormalizePrefix

\* normalize_prefix(prefix) for None and the prefixes of up to MaxPieces pieces.
SpecPrefix == InitPrefix /\ [][NextPrefix]_vars

\* C14: normalize_prefix returns the empty string, or a string that starts
\* with "/" and does not end with "/".
C14_NoTrailingSlash ==
    normalized # NoneV =>
        \/ normalized.text = <<>>
        \/ /\ normalized.text[1] = "/"
           /\ normalized.text[Len(normalized.text)] # "/"

----------------------------------------------------------------------------
(* class DatasetsMapping.  An identifier is a sequence of the pieces "a",  *)
(* "b", ".", "zarr" and "levels"; the dict of names is a sequence of       *)
(* entries [key, val] in insertion order; c is the state [configs, opened] *)
(* of the DatasetsContext.                                                 *)

LEVELS_EXT == <<".", "levels">>

ZARR_EXT == <<".", "zarr">>

DatasetIds ==
    {<<"a">>, <<"a", ".", "zarr">>, <<"a", ".", "levels">>,
     <<"a", ".", "zarr", ".", "levels">>, <<"b", ".", "zarr">>}

\* The identifiers for which get_dataset and get_ml_dataset raise ApiError.
BrokenIds == {<<"b", ".", "zarr">>}

\* _split_base_ext(identifier)
split_base_ext(identifier) ==
    IF \E i \in 1..Len(identifier) : identifier[i] = "."
    THEN LET last == CHOOSE i \in 1..Len(identifier) :
                         /\ identifier[i] = "."
                         /\ \A j \in (i + 1)..Len(identifier) : identifier[j] # "."
         IN <<SubSeq(identifier, 1, last - 1), SubSeq(identifier, last, Len(identifier))>>
    ELSE <<identifier, <<>>>>

\* A _replace_ext that does not look at the other identifiers.
replace_ext_Unaware(base_name, old_ext, trigger_ext, new_ext, all_ids) ==
    IF old_ext = new_ext \/ old_ext = trigger_ext
    THEN base_name \o new_ext
    ELSE base_name \o old_ext \o new_ext

\* _replace_ext(base_name, old_ext, trigger_ext, new_ext, all_ids)
replace_ext(base_name, old_ext, trigger_ext, new_ext, all_ids) ==
    IF old_ext = new_ext \/ (old_ext = trigger_ext /\ (base_name \o new_ext) \notin all_ids)
    THEN base_name \o new_ext
    ELSE base_name \o old_ext \o new_ext

\* s3_names[s3_name] = ds_id
TableSet(d, k, v) ==
    IF \E i \in 1..Len(d) : d[i].key = k
    THEN [d EXCEPT ![CHOOSE i \in 1..Len(d) : d[i].key = k] = [key |-> k, val |-> v]]
    ELSE Append(d, [key |-> k, val |-> v])

\* The name that the loop of _get_s3_names gives ds_id.
S3Name(ds_id, multi_level, all_ids) ==
    IF multi_level
    THEN replace_ext(split_base_ext(ds_id)[1], split_base_ext(ds_id)[2],
                     ZARR_EXT, LEVELS_EXT, all_ids)
    ELSE replace_ext(split_base_ext(ds_id)[1], split_base_ext(ds_id)[2],
                     LEVELS_EXT, ZARR_EXT, all_ids)

RECURSIVE NamesFrom(_, _, _, _, _)
\* The loop `for ds_id in ds_ids` from item k on.
NamesFrom(ds_ids, k, multi_level, all_ids, s3_names) ==
    IF k > Len(ds_ids) THEN s3_names
    ELSE NamesFrom(ds_ids, k + 1, multi_level, all_ids,
                   TableSet(s3_names, S3Name(ds_ids[k], multi_level, all_ids), ds_ids[k]))

Range(q) == {q[i] : i \in 1..Len(q)}

\* DatasetsMapping._get_s3_names(datasets_ctx, is_multi_level)
get_s3_names(configs, multi_level) == NamesFrom(configs, 1, multi_level, Range(configs), <<>>)

\* A name table that is kept from the construction of the adapter, on a
\* DatasetsContext without dataset configurations.
s3_names_Kept(multi_level, c) == get_s3_names(<<>>, multi_level)

\* DatasetsMapping._s3_names
s3_names(multi_level, c) == get_s3_names(c.configs, multi_level)

TableHas(d, k) == \E i \in 1..Len(d) : d[i].key = k

TableGet(d, k) == d[CHOOSE i \in 1..Len(d) : d[i].key = k].val

\* datasets_ctx.get_dataset(ds_id) and get_ml_dataset(ds_id), fn the name of
\* the method: the call is recorded, and raises ApiError for a broken dataset.
OpenDataset(fn, ds_id, c) ==
    [ctx |-> [c EXCEPT !.opened = Append(@, [fn |-> fn, id |-> ds_id])],
     ret |-> IF ds_id \in BrokenIds THEN Raise("ApiError")
             ELSE OkRet([kind |-> fn, id |-> ds_id])]

\* DatasetsMapping.__len__
mapping_len(multi_level, c) == [ctx |-> c, ret |-> OkRet(Len(s3_names(multi_level, c)))]

\* DatasetsMapping.__iter__, as the list of the names it goes through
mapping_iter(multi_level, c) ==
    [ctx |-> c,
     ret |-> OkRet([i \in 1..Len(s3_names(multi_level, c)) |-> s3_names(multi_level, c)[i].key])]

\* The end of __getitem__, dataset_id what self._s3_names[s3_name] gave.
GetItemOpen(multi_level, dataset_id, c) ==
    IF multi_level THEN OpenDataset("get_ml_dataset", dataset_id, c)
    ELSE OpenDataset("get_dataset", dataset_id, c)

\* A __getitem__ that opens the dataset under the name it was asked for.
mapping_getitem_ByName(multi_level, s3_name, c) ==
    IF TableHas(s3_names(multi_level, c), s3_name)
    THEN GetItemOpen(multi_level, s3_name, c)
    ELSE [ctx |-> c, ret |-> Raise("KeyError")]

\* DatasetsMapping.__getitem__
mapping_getitem(multi_level, s3_name, c) ==
    IF TableHas(s3_names(multi_level, c), s3_name)
    THEN GetItemOpen(multi_level, TableGet(s3_names(multi_level, c), s3_name), c)
    ELSE [ctx |-> c, ret |-> Raise("KeyError")]

\* The __contains__ of collections.abc.Mapping, which tries self[key], r
\* the outcome of self[key].
ContainsByGetItem(r) ==
    IF r.ret = Raise("KeyError") THEN [ctx |-> r.ctx, ret |-> OkRet(FALSE)]
    ELSE IF Raised(r.ret) THEN r
    ELSE [ctx |-> r.ctx, ret |-> OkRet(TRUE)]

mapping_contains_Inherited(multi_level, s3_name, c) ==
    ContainsByGetItem(mapping_getitem(multi_level, s3_name, c))

\* DatasetsMapping.__contains__
mapping_contains(multi_level, s3_name, c) ==
    [ctx |-> c, ret |-> OkRet(TableHas(s3_names(multi_level, c), s3_name))]

\* The DatasetsContext as it is.
Ctx == [configs |-> dataset_configs, opened |-> opened]

\* The names that are looked up: the identifiers, alone and with an extension added.
S3NameInputs ==
    UNION {{id, id \o LEVELS_EXT, id \o ZARR_EXT,
            split_base_ext(id)[1] \o LEVELS_EXT, split_base_ext(id)[1] \o ZARR_EXT} :
           id \in DatasetIds}

\* The operation that returned r has run on the DatasetsContext.
CtxCommit(r) ==
    /\ Len(r.ctx.opened) <= MaxOpens
    /\ dataset_configs' = r.ctx.configs
    /\ opened' = r.ctx.opened
    /\ UNCHANGED <<is_multi_level, regVars, thrVars, tokVars, pfxVars, runVars>>

\* The server's configuration changes: a dataset is configured.
AddDatasetConfig ==
    /\ Len(dataset_configs) < MaxDatasets
    /\ \E id \in DatasetIds \ Range(dataset_configs) :
          dataset_configs' = Append(dataset_configs, id)
    /\ UNCHANGED <<opened, is_multi_level, regVars, thrVars, tokVars, pfxVars, runVars>>

\* The server's configuration changes: a dataset is no longer configured.
RemoveDatasetConfig ==
    /\ \E i \in 1..Len(dataset_configs) :
          dataset_configs' = SubSeq(dataset_configs, 1, i - 1)
                                \o SubSeq(dataset_configs, i + 1, Len(dataset_configs))
    /\ UNCHANGED <<opened, is_multi_level, regVars, thrVars, tokVars, pfxVars, runVars>>

MappingLen == CtxCommit(mapping_len(is_multi_level, Ctx))

MappingIter == CtxCommit(mapping_iter(is_multi_level, Ctx))

MappingContains == \E n \in S3NameInputs : CtxCommit(mapping_contains(is_multi_level, n, Ctx))

MappingGetItem == \E n \in S3NameInputs : CtxCommit(mapping_getitem(is_multi_level, n, Ctx))

\* A DatasetsMapping, single-level or multi-level, was constructed on a
\* DatasetsContext without dataset configurations.
InitDatasets ==
    /\ IdleRegistry
    /\ IdleScript
    /\ IdleThreads
    /\ IdleTokenizer
    /\ IdlePrefix
    /\ dataset_configs = <<>>
    /\ opened = <<>>
    /\ is_multi_level \in BOOLEAN

NextDatasets ==
    \/ AddDatasetConfig
    \/ RemoveDatasetConfig
    \/ MappingLen
    \/ MappingIter
    \/ MappingContains
    \/ MappingGetItem

\* The operations of a DatasetsMapping between changes of the configuration.
SpecDatasets == InitDatasets /\ [][NextDatasets]_vars

\* C15: the names of the configured identifiers are distinct: the adapter
\* has as many names as there are identifiers, and every identifier is the
\* value of a name.
C15_NamesDistinct ==
    /\ mapping_len(is_multi_level, Ctx).ret.val = Len(dataset_configs)
    /\ \A id \in Range(dataset_configs) :
          \E n \in S3NameInputs :
              /\ TableHas(s3_names(is_multi_level, Ctx), n)
              /\ TableGet(s3_names(is_multi_level, Ctx), n) = id

\* The index of the last "." of an identifier, 0 if it has none.
LastDot(id) ==
    IF \E i \in 1..Len(id) : id[i] = "."
    THEN CHOOSE i \in 1..Len(id) : id[i] = "." /\ \A j \in (i + 1)..Len(id) : id[j] # "."
    ELSE 0

\* An identifier's base and ext: the text before its last "." and the text
\* from it on; the identifier and "" for an identifier without ".".
BaseOf(id) == IF LastDot(id) = 0 THEN id ELSE SubSeq(id, 1, LastDot(id) - 1)

ExtOf(id) == IF LastDot(id) = 0 THEN <<>> ELSE SubSeq(id, LastDot(id), Len(id))

NewExt == IF is_multi_level THEN <<".", "levels">> ELSE <<".", "zarr">>

TriggerExt == IF is_multi_level THEN <<".", "zarr">> ELSE <<".", "levels">>

\* The bucket name that the naming rule gives a configured identifier.
BucketName(id) ==
    IF \/ ExtOf(id) = NewExt
       \/ (ExtOf(id) = TriggerExt /\ (BaseOf(id) \o NewExt) \notin Range(dataset_configs))
    THEN BaseOf(id) \o NewExt
    ELSE BaseOf(id) \o ExtOf(id) \o NewExt

\* C16: the name table has exactly the bucket names that the naming rule
\* gives the configured identifiers, each name once, in the order in which
\* the identifiers first give them, and a name stands for the last
\* configured identifier that the rule gives it.
C16_NamingRule ==
    LET table == s3_names(is_multi_level, Ctx)
    IN /\ \A k \in 1..Len(dataset_configs) :
             /\ TableHas(table, BucketName(dataset_configs[k]))
             /\ \E j \in k..Len(dataset_configs) :
                   /\ TableGet(table, BucketName(dataset_configs[k])) = dataset_configs[j]
                   /\ BucketName(dataset_configs[j]) = BucketName(dataset_configs[k])
                   /\ \A m \in (j + 1)..Len(dataset_configs) :
                         BucketName(dataset_configs[m]) # BucketName(dataset_configs[k])
       /\ \A i \in 1..Len(table) :
             /\ \E k \in 1..Len(dataset_configs) : table[i].key = BucketName(dataset_configs[k])
             /\ \A j \in 1..Len(table) : table[j].key = table[i].key => i = j
       /\ mapping_iter(is_multi_level, Ctx).ret.val = [i \in 1..Len(table) |-> table[i].key]

\* C16 witness: a multi-level adapter whose context has "a.zarr", "a.levels"
\* and "a" configured: an ext that is the trigger while base + new_ext is
\* configured, an ext that is new_ext, and an identifier without ".".
C16_Witness ==
    /\ is_multi_level
    /\ dataset_configs = <<<<"a", ".", "zarr">>, <<"a", ".", "levels">>, <<"a">>>>

\* The bucket names of the configured identifiers.
BucketNames == {BucketName(id) : id \in Range(dataset_configs)}

\* C17: `name in adapter` opens no dataset and raises nothing, whatever the
\* name and whether or not its dataset can be opened, and is true exactly
\* for the bucket names of the configured identifiers; adapter[name] for any
\* other name raises KeyError and opens no dataset.
C17_ContainsOpensNothing ==
    \A n \in S3NameInputs :
        /\ mapping_contains(is_multi_level, n, Ctx).ctx = Ctx
        /\ ~Raised(mapping_contains(is_multi_level, n, Ctx).ret)
        /\ mapping_contains(is_multi_level, n, Ctx).ret.val <=> n \in BucketNames
        /\ n \notin BucketNames =>
              /\ mapping_getitem(is_multi_level, n, Ctx).ret = Raise("KeyError")
              /\ mapping_getitem(is_multi_level, n, Ctx).ctx = Ctx

\* C17 witness: a dataset that cannot be opened is configured beside
\* another, and no dataset was opened.
C17_Witness ==
    /\ <<"b", ".", "zarr">> \in Range(dataset_configs)
    /\ Len(dataset_configs) = 2
    /\ opened = <<>>

\* The configured identifier that a bucket name stands for: the last one
\* that the naming rule gives the name.
IdentifierOf(n) ==
    dataset_configs[CHOOSE k \in 1..Len(dataset_configs) :
                        /\ BucketName(dataset_configs[k]) = n
                        /\ \A m \in (k + 1)..Len(dataset_configs) :
                              BucketName(dataset_configs[m]) # n]

\* C18: adapter[name] for a bucket name makes one call on the datasets
\* context, of get_ml_dataset if the adapter is multi-level and of
\* get_dataset if not, with the configured identifier that the name stands
\* for, and returns what the call returns or raises what it raises.
C18_GetItemOpens ==
    \A n \in BucketNames :
        LET r == mapping_getitem(is_multi_level, n, Ctx)
            fn == IF is_multi_level THEN "get_ml_dataset" ELSE "get_dataset"
        IN /\ r.ctx.configs = dataset_configs
           /\ r.ctx.opened = Append(opened, [fn |-> fn, id |-> IdentifierOf(n)])
           /\ IdentifierOf(n) \in BrokenIds => r.ret = Raise("ApiError")
           /\ IdentifierOf(n) \notin BrokenIds =>
                 r.ret = OkRet([kind |-> fn, id |-> IdentifierOf(n)])

\* C18 witness: a multi-level adapter has opened "a.zarr", which is not its
\* bucket name, with get_ml_dataset.
C18_Witness ==
    /\ is_multi_level
    /\ opened = <<[fn |-> "get_ml_dataset", id |-> <<"a", ".", "zarr">>]>>
    /\ <<"a", ".", "zarr">> \in Range(dataset_configs)

\* len, iteration, containment and lookup are those of the bucket names of
\* the identifiers that are configured now.
FromCurrentList ==
    /\ mapping_len(is_multi_level, Ctx).ret.val = Cardinality(BucketNames)
    /\ Range(mapping_iter(is_multi_level, Ctx).ret.val) = BucketNames
    /\ \A n \in S3NameInputs :
          /\ mapping_contains(is_multi_level, n, Ctx).ret.val <=> n \in BucketNames
          /\ n \in BucketNames <=>
                mapping_getitem(is_multi_level, n, Ctx).ret # Raise("KeyError")
          /\ n \in BucketNames =>
                mapping_getitem(is_multi_level, n, Ctx).ctx.opened
                    = Append(opened, [fn |-> IF is_multi_level THEN "get_ml_dataset"
                                             ELSE "get_dataset",
                                      id |-> IdentifierOf(n)])

\* C19: at every time, whatever changes of the configured list and
\* operations of the adapter came before in whatever order, len, iteration,
\* containment and lookup are those of the identifiers configured at that
\* time: nothing of the list as it was before is kept.
C19_NoCache == []FromCurrentList

\* C19 witness: the adapter has opened a dataset that is no longer
\* configured, while another is.
C19_Witness ==
    /\ opened # <<>>
    /\ opened[1].id \notin Range(dataset_configs)
    /\ dataset_configs # <<>>

----------------------------------------------------------------------------
(* The bootstrap script run_era_server.py, statement by statement.  An     *)
(* exception that a statement raises ends the script; leaving the with     *)
(* block closes the file, by an exception as well.                         *)

Bytes == {"x", "y"}

\* The contents that a blob or a file can have.
Contents == SeqsUpTo(Bytes, MaxBlobLen)

Blobs == {[exists |-> FALSE]} \cup {[exists |-> TRUE, data |-> d] : d \in Contents}

Files ==
    {[exists |-> FALSE, open |-> FALSE]}
        \cup {[exists |-> TRUE, open |-> FALSE, data |-> d] : d \in Contents}

\* print(...); connection_string = os.environ.get('AzureWebJobsStorage')
RunGetEnv ==
    /\ rpc = "start"
    /\ rpc' = "client"
    /\ UNCHANGED <<conn, remote, file_before, tmp_file, file, attempts, regVars, thrVars, tokVars, pfxVars, dsVars>>

\* BlobServiceClient.from_connection_string(conn_str=connection_string):
\* raises for a connection string that is None or malformed.
RunServiceClient ==
    /\ rpc = "client"
    /\ attempts' = [attempts EXCEPT !.client = @ + 1]
    /\ rpc' = IF conn = "good" THEN "blob_client" ELSE "aborted"
    /\ UNCHANGED <<conn, remote, file_before, tmp_file, file, regVars, thrVars, tokVars, pfxVars, dsVars>>

\* blob_service_client_instance.get_blob_client('config-file', 'xcube_config.yml', snapshot=None)
RunBlobClient ==
    /\ rpc = "blob_client"
    /\ rpc' = "open"
    /\ UNCHANGED <<conn, remote, file_before, tmp_file, file, attempts, regVars, thrVars, tokVars, pfxVars, dsVars>>

\* An open that keeps what the file holds.
RunOpenFile_Keeping ==
    /\ rpc = "open"
    /\ \/ /\ file' = [exists |-> TRUE, open |-> TRUE,
                      data |-> IF file.exists THEN file.data ELSE <<>>]
          /\ rpc' = "download"
       \/ /\ file' = file
          /\ rpc' = "aborted"
    /\ UNCHANGED <<conn, remote, file_before, tmp_file, attempts,
                   regVars, thrVars, tokVars, pfxVars, dsVars>>

\* with open(file='xcube_config.yml', mode="wb") as config_blob: the file is
\* created or truncated, or open raises.
RunOpenFile ==
    /\ rpc = "open"
    /\ \/ /\ file' = [exists |-> TRUE, open |-> TRUE, data |-> <<>>]
          /\ rpc' = "download"
       \/ /\ file' = file
          /\ rpc' = "aborted"
    /\ UNCHANGED <<conn, remote, file_before, tmp_file, attempts, regVars, thrVars, tokVars, pfxVars, dsVars>>

\* A download whose failure is ignored.
RunDownload_Ignoring ==
    /\ rpc = "download"
    /\ attempts' = [attempts EXCEPT !.download = @ + 1]
    /\ rpc' = IF remote.exists THEN "write" ELSE "close"
    /\ UNCHANGED <<conn, remote, file_before, tmp_file, file, regVars, thrVars, tokVars, pfxVars, dsVars>>

\* blob_data = blob_client_instance.download_blob(): raises if there is no
\* such blob, and may raise if there is; the exception leaves the with block.
RunDownload ==
    /\ rpc = "download"
    /\ attempts' = [attempts EXCEPT !.download = @ + 1]
    /\ \/ /\ remote.exists
          /\ rpc' = "write"
          /\ file' = file
       \/ /\ rpc' = "aborted"
          /\ file' = [file EXCEPT !.open = FALSE]
    /\ UNCHANGED <<conn, remote, file_before, tmp_file, regVars, thrVars, tokVars, pfxVars, dsVars>>

\* config_blob.write(blob_data.readall()): readall may raise.
RunWrite ==
    /\ rpc = "write"
    /\ \/ /\ file' = [file EXCEPT !.data = @ \o remote.data]
          /\ rpc' = "close"
       \/ /\ file' = [file EXCEPT !.open = FALSE]
          /\ rpc' = "aborted"
    /\ UNCHANGED <<conn, remote, file_before, tmp_file, attempts, regVars, thrVars, tokVars, pfxVars, dsVars>>

\* The with block is left: the file is closed.
RunClose ==
    /\ rpc = "close"
    /\ file' = [file EXCEPT !.open = FALSE]
    /\ rpc' = "serve"
    /\ UNCHANGED <<conn, remote, file_before, tmp_file, attempts, regVars, thrVars, tokVars, pfxVars, dsVars>>

\* print(...); subprocess.run('xcube serve --port 8082 --config xcube_config.yml -v', shell=True)
RunServe ==
    /\ rpc = "serve"
    /\ attempts' = [attempts EXCEPT !.serve = @ + 1]
    /\ rpc' = "done"
    /\ UNCHANGED <<conn, remote, file_before, tmp_file, file, regVars, thrVars, tokVars, pfxVars, dsVars>>

\* The script starts in an environment with or without a connection string,
\* a blob and a local file.
InitScript ==
    /\ IdleRegistry
    /\ IdleThreads
    /\ IdleTokenizer
    /\ IdlePrefix
    /\ IdleDatasets
    /\ rpc = "start"
    /\ conn \in {"none", "bad", "good"}
    /\ remote \in Blobs
    /\ file \in Files
    /\ tmp_file = [exists |-> FALSE, open |-> FALSE]
    /\ file_before = file
    /\ attempts = [client |-> 0, download |-> 0, serve |-> 0]

NextScript ==
    \/ RunGetEnv
    \/ RunServiceClient
    \/ RunBlobClient
    \/ RunOpenFile
    \/ RunDownload
    \/ RunWrite
    \/ RunClose
    \/ RunServe

\* One run of run_era_server.py.
SpecScript == InitScript /\ [][NextScript]_vars

\* C20: the server is started only when the blob was downloaded, the file
\* holds what the blob holds and is closed; a run that aborted, and a run
\* without a usable connection string or without the blob, has not started
\* the server; and the script builds a client, downloads and starts the
\* server at most once each.
C20_ServeAfterDownload ==
    /\ attempts.serve > 0 =>
          /\ attempts.download = 1
          /\ remote.exists
          /\ file.exists /\ ~file.open
          /\ file.data = remote.data
    /\ rpc = "aborted" => (attempts.serve = 0 /\ ~file.open)
    /\ (conn # "good" \/ ~remote.exists) => attempts.serve = 0
    /\ attempts.client <= 1 /\ attempts.download <= 1 /\ attempts.serve <= 1

\* C20 witness: the script has started the server on a file that holds the
\* two bytes of the blob.
C20_Witness ==
    /\ rpc = "done"
    /\ attempts.serve = 1
    /\ file.data = <<"x", "y">>

\* C25: the script opens xcube_config.yml, which empties it, before it
\* starts the download: at the download the file is open and empty and
\* nothing was downloaded yet.  A run that aborted in or after the download
\* has left the file empty and closed, whatever it held before, and has not
\* started the server; a run that has not yet opened the file, and a run
\* that aborted before the download, as it does when the client cannot be
\* built, has left the file as it found it.
C25_TruncatedBeforeDownload ==
    /\ rpc = "download" =>
          /\ file = [exists |-> TRUE, open |-> TRUE, data |-> <<>>]
          /\ attempts.download = 0
    /\ (rpc = "aborted" /\ attempts.download = 1) =>
          /\ file = [exists |-> TRUE, open |-> FALSE, data |-> <<>>]
          /\ attempts.serve = 0
    /\ (rpc \in {"start", "client", "blob_client", "open"}
          \/ (rpc = "aborted" /\ attempts.download = 0)) =>
          file = file_before
    /\ (rpc = "aborted" /\ conn # "good") =>
          (attempts.client = 1 /\ attempts.download = 0 /\ attempts.serve = 0)

\* C25 witness: the download failed for a blob that exists, and the file,
\* which held two bytes, is empty.
C25_Witness ==
    /\ rpc = "aborted"
    /\ attempts.download = 1
    /\ remote.exists
    /\ file_before = [exists |-> TRUE, open |-> FALSE, data |-> <<"x", "y">>]
    /\ file.data = <<>>

----------------------------------------------------------------------------
(* The bootstrap script xcube-vm/get_config_file.py, statement by           *)
(* statement.  It has no statement that starts a process.                   *)

\* print(...); connection_string = os.environ.get('AzureWebJobsStorage')
VmGetEnv ==
    /\ rpc = "start"
    /\ rpc' = "client"
    /\ UNCHANGED <<conn, remote, file_before, file, tmp_file, attempts,
                   regVars, thrVars, tokVars, pfxVars, dsVars>>

\* BlobServiceClient.from_connection_string(conn_str=connection_string):
\* raises for a connection string that is None or malformed.
VmServiceClient ==
    /\ rpc = "client"
    /\ attempts' = [attempts EXCEPT !.client = @ + 1]
    /\ rpc' = IF conn = "good" THEN "blob_client" ELSE "aborted"
    /\ UNCHANGED <<conn, remote, file_before, file, tmp_file, regVars, thrVars, tokVars, pfxVars, dsVars>>

\* blob_service_client_instance.get_blob_client('config-file', 'xcube_config.yml', snapshot=None)
VmBlobClient ==
    /\ rpc = "blob_client"
    /\ rpc' = "open"
    /\ UNCHANGED <<conn, remote, file_before, file, tmp_file, attempts,
                   regVars, thrVars, tokVars, pfxVars, dsVars>>

\* An open that keeps what the file holds.
VmOpenFile_Keeping ==
    /\ rpc = "open"
    /\ \/ /\ tmp_file' = [exists |-> TRUE, open |-> TRUE,
                          data |-> IF tmp_file.exists THEN tmp_file.data ELSE <<>>]
          /\ rpc' = "download"
       \/ /\ tmp_file' = tmp_file
          /\ rpc' = "aborted"
    /\ UNCHANGED <<conn, remote, file_before, file, attempts, regVars, thrVars, tokVars, pfxVars, dsVars>>

\* with open('/tmp/xcube_config.yml', "wb") as my_blob: the file is created
\* or truncated, or open raises.
VmOpenFile ==
    /\ rpc = "open"
    /\ \/ /\ tmp_file' = [exists |-> TRUE, open |-> TRUE, data |-> <<>>]
          /\ rpc' = "download"
       \/ /\ tmp_file' = tmp_file
          /\ rpc' = "aborted"
    /\ UNCHANGED <<conn, remote, file_before, file, attempts, regVars, thrVars, tokVars, pfxVars, dsVars>>

\* blob_data = blob_client_instance.download_blob(): raises if there is no
\* such blob, and may raise if there is; the exception leaves the with block.
VmDownload ==
    /\ rpc = "download"
    /\ attempts' = [attempts EXCEPT !.download = @ + 1]
    /\ \/ /\ remote.exists
          /\ rpc' = "readinto"
          /\ tmp_file' = tmp_file
       \/ /\ rpc' = "aborted"
          /\ tmp_file' = [tmp_file EXCEPT !.open = FALSE]
    /\ UNCHANGED <<conn, remote, file_before, file, regVars, thrVars, tokVars, pfxVars, dsVars>>

\* blob_data.readinto(my_blob): the blob's bytes are written to the file in
\* their order as they arrive; a failure on the way leaves those written
\* before it in the file.
VmReadInto ==
    /\ rpc = "readinto"
    /\ \/ /\ tmp_file' = [tmp_file EXCEPT !.data = @ \o remote.data]
          /\ rpc' = "close"
       \/ /\ \E k \in 0..Len(remote.data) :
                tmp_file' = [tmp_file EXCEPT !.data = @ \o SubSeq(remote.data, 1, k),
                                             !.open = FALSE]
          /\ rpc' = "aborted"
    /\ UNCHANGED <<conn, remote, file_before, file, attempts, regVars, thrVars, tokVars, pfxVars, dsVars>>

\* The with block is left: the file is closed.
VmClose ==
    /\ rpc = "close"
    /\ tmp_file' = [tmp_file EXCEPT !.open = FALSE]
    /\ rpc' = "finish"
    /\ UNCHANGED <<conn, remote, file_before, file, attempts, regVars, thrVars, tokVars, pfxVars, dsVars>>

\* print('Config file downloaded succesfully...'): the last statement.
VmFinish ==
    /\ rpc = "finish"
    /\ rpc' = "done"
    /\ UNCHANGED <<conn, remote, file_before, file, tmp_file, attempts,
                   regVars, thrVars, tokVars, pfxVars, dsVars>>

\* The script starts in an environment with or without a connection string,
\* a blob, a file xcube_config.yml and a file /tmp/xcube_config.yml.
InitVm ==
    /\ IdleRegistry
    /\ IdleThreads
    /\ IdleTokenizer
    /\ IdlePrefix
    /\ IdleDatasets
    /\ rpc = "start"
    /\ conn \in {"none", "bad", "good"}
    /\ remote \in Blobs
    /\ file \in Files
    /\ tmp_file \in Files
    /\ file_before = tmp_file
    /\ attempts = [client |-> 0, download |-> 0, serve |-> 0]

NextVm ==
    \/ VmGetEnv
    \/ VmServiceClient
    \/ VmBlobClient
    \/ VmOpenFile
    \/ VmDownload
    \/ VmReadInto
    \/ VmClose
    \/ VmFinish

\* One run of xcube-vm/get_config_file.py.
SpecVm == InitVm /\ [][NextVm]_vars

\* C21: when the script has run to its end, /tmp/xcube_config.yml exists, is
\* closed and holds exactly the bytes of the blob, whatever it held before;
\* and in no run, to its end or aborted at any statement, was a server
\* started, and the file xcube_config.yml of the working directory is as it
\* was.
C21_FileIsBlobNoServer ==
    /\ rpc \in {"finish", "done"} =>
          /\ remote.exists
          /\ tmp_file.exists /\ ~tmp_file.open
          /\ tmp_file.data = remote.data
    /\ attempts.serve = 0
    /\ ~file.open

\* C21 witness: the script has run to its end and /tmp/xcube_config.yml,
\* which held another byte before, holds the two bytes of the blob.
C21_Witness ==
    /\ rpc = "done"
    /\ tmp_file.data = <<"x", "y">>
    /\ file_before = [exists |-> TRUE, open |-> FALSE, data |-> <<"y">>]
    /\ attempts.download = 1

====
